---------------------------- MODULE Spec2Model ----------------------------
(***************************************************************************)
(* Chain-state cache and versioned collections of the mindshare            *)
(* prediction-market backend (api/src).                                    *)
(*                                                                         *)
(* The store (MongoDB collections Market, UserInvestment, UserBalance,     *)
(* Contract, LeaderboardEntry), the ledger (the chain the provider reads)  *)
(* and the clock are the state.  Every request handler is a sequence of    *)
(* steps, one per await, so that handlers interleave where the code        *)
(* suspends.  Three specifications share the variables:                    *)
(*   SpecCache      the three cached reads (routes/markets.ts, user.ts)    *)
(*   SpecList       the market-list reads and the sweeps they start        *)
(*   SpecVersioned  the two versioned collections: leaderboard groups      *)
(*                  (seed, snapshot, regenerate) and market batches        *)
(*                  (import, latest-batch read)                            *)
(* Times are milliseconds, as Date.now() gives them.  Decimal strings of   *)
(* bigints (pools, claims, balances) are modelled by the number they       *)
(* spell.  Store calls are taken not to fail; ledger calls may.            *)
(***************************************************************************)
EXTENDS Integers, Sequences, FiniteSets, TLC

VARIABLES
    now,          \* Date.now(), milliseconds
    today,        \* getDateOnly(new Date()), as a day number
    ENABLE_CACHE, \* app.get('ENABLE_CACHE')
    markets,      \* Market collection: marketAddress -> row or NoRow
    investments,  \* UserInvestment collection: <<market, user>> -> row or NoRow
    balances,     \* UserBalance collection: user -> row or NoRow
    stakeToken,   \* Contract collection holds a row of type 'stakeToken'
    chainCode,    \* ledger: address has contract code
    chainMkt,     \* ledger: market address -> phase, pools, winner, times
    chainClaim,   \* ledger: <<market, user>> -> a(user)
    chainBal,     \* ledger: user -> balanceOf(user)
    leaderboard,  \* LeaderboardEntry collection: a set of rows
    rd,           \* the cached read in flight (local variables of its handler)
    resp,         \* the response of the cached read
    refreshLog,   \* history: market address -> last refresh a cached read applied
    ls,           \* the market-list reads in flight
    sweeps,       \* the runs of syncMarketPhases, by the request that started them
    imp,          \* the market imports in flight
    nimp,         \* history: number of market imports started
    lbq,          \* the leaderboard requests in flight
    hist,         \* history: the leaderboard submissions made so far
    nreq,         \* history: number of leaderboard submissions started
    wr,           \* the cache-update, sync-phases, close-all or faucet request in flight
    nwr,          \* history: number of such requests started
    absentSeen    \* history: addresses a sweep of a list read found without contract code

vars == <<now, today, ENABLE_CACHE, markets, investments, balances, stakeToken,
          chainCode, chainMkt, chainClaim, chainBal, leaderboard, rd, resp,
          refreshLog, ls, sweeps, imp, nimp, lbq, hist, nreq, wr, nwr,
          absentSeen>>

storeVars == <<markets, investments, balances, stakeToken>>
chainVars == <<chainCode, chainMkt, chainClaim, chainBal>>
cacheReqVars == <<rd, resp, refreshLog>>
listVars == <<ls, sweeps>>
batchVars == <<imp, nimp>>
lbVars == <<leaderboard, lbq, hist, nreq>>
writeVars == <<wr, nwr>>

-----------------------------------------------------------------------------
(* Values *)

Addrs == {"m1", "m2"}
Users == {"u1"}

\* An optional field that is not set (undefined / missing in the document).
Undef == -1

\* A key with no document in its collection.
NoRow == [absent |-> TRUE]

\* cacheAge < 30000
CacheTTL == 30000

\* Steps by which the clock advances between two steps of the handlers.
TickSteps == {4000, 30000, 31000}

\* The clock stops advancing here.
MaxNow == 35000

\* Cached reads served in one behaviour.
MaxReads == 3

Phases == 0 .. 2

\* phaseToStatus (utils/constants.ts)
phaseToStatus(phase) ==
    CASE phase = 0 -> "trading"
      [] phase = 1 -> "locked"
      [] phase = 2 -> "resolved"
      [] phase = 3 -> "cancelled"
      [] OTHER -> "unknown"

\* Outcomes of one ledger call: it answers, it is rejected (CALL_EXCEPTION,
\* missing revert data), or it fails otherwise (network, bad data).
Outcomes == {"ok", "transient", "unexpected"}


NoVal == [none |-> TRUE]
NoResp == [status |-> 0, cached |-> FALSE]

\* No cache-update, sync-phases, close-all or faucet request is served.
\* calls counts the ledger calls its sync functions have made.
WrOff == [pc |-> "off", op |-> "update", variant |-> "router", addr |-> "none",
          user |-> "none", stage |-> 0, sync |-> "none", got |-> NoVal,
          docs |-> <<>>, i |-> 0, blockTime |-> 0, closed |-> {},
          refreshed |-> {}, calls |-> 0, result |-> NoVal, resp |-> NoVal,
          results |-> <<>>, txs |-> {}]

\* The ledger values the model starts from.
ChainMkt0 == [phase |-> 0, poolA |-> 100, poolB |-> 50, winner |-> 0,
              lockTime |-> 100, resolveTime |-> 200]
ChainClaim0 == [aClaims |-> 0, bClaims |-> 0, redeemed |-> FALSE]

\* A Market document as POST /markets/import creates it (db.ts defaults:
\* phase 0, status 'trading'; no pools, no winner, no lastSyncedAt).
ImportedRow(date, index) ==
    [phase |-> 0, status |-> phaseToStatus(0), winner |-> Undef,
     poolA |-> Undef, poolB |-> Undef, lockTime |-> 100, resolveTime |-> 200,
     lastSyncedAt |-> Undef, deploymentDate |-> date, deploymentIndex |-> index]

-----------------------------------------------------------------------------
(* The cache writes of utils/sync.ts *)

\* Number(winner) > 0 ? Number(winner) : undefined
WinnerField(w) == IF w > 0 THEN w ELSE Undef

\* syncMarketToCache, Market.findOneAndUpdate(..., { upsert: false }): no
\* document is created; a matched one gets every fetched field and
\* lastSyncedAt.  An undefined winner in the update is dropped by the driver
\* (strip) or written as unset, depending on the mongoose version.
SyncMarketUpdate_NoTimestamp(row, f, t, strip) ==
    IF row = NoRow THEN NoRow
    ELSE [row EXCEPT !.phase = f.phase, !.status = phaseToStatus(f.phase),
                     !.poolA = f.poolA, !.poolB = f.poolB]

SyncMarketUpdate_Inc(row, f, t, strip) ==
    IF row = NoRow THEN NoRow
    ELSE [row EXCEPT !.phase = f.phase, !.status = phaseToStatus(f.phase),
                     !.winner = WinnerField(f.winner),
                     !.poolA = @ + f.poolA, !.poolB = @ + f.poolB,
                     !.lockTime = f.lockTime, !.resolveTime = f.resolveTime,
                     !.lastSyncedAt = t]

SyncMarketUpdate_Upsert(row, f, t, strip) ==
    [phase |-> f.phase, status |-> phaseToStatus(f.phase),
     winner |-> WinnerField(f.winner), poolA |-> f.poolA, poolB |-> f.poolB,
     lockTime |-> f.lockTime, resolveTime |-> f.resolveTime,
     lastSyncedAt |-> t,
     deploymentDate |-> IF row = NoRow THEN 0 ELSE row.deploymentDate,
     deploymentIndex |-> IF row = NoRow THEN 0 ELSE row.deploymentIndex]

SyncMarketUpdate(row, f, t, strip) ==
    IF row = NoRow THEN NoRow
    ELSE [row EXCEPT !.phase = f.phase,
                     !.status = phaseToStatus(f.phase),
                     !.winner = IF WinnerField(f.winner) = Undef /\ strip
                                THEN @ ELSE WinnerField(f.winner),
                     !.poolA = f.poolA,
                     !.poolB = f.poolB,
                     !.lockTime = f.lockTime,
                     !.resolveTime = f.resolveTime,
                     !.lastSyncedAt = t]

\* if (code === '0x' || code === '0x0'), on the answer of provider.getCode
IsAbsent_Never(hasCode) == FALSE

IsAbsent(hasCode) == ~hasCode

\* The catch block of a sync function and of an iteration of the sweep: it
\* logs, and the document is left as it is.
KeepOnError_Touch(row, t) ==
    IF row = NoRow THEN row ELSE [row EXCEPT !.lastSyncedAt = t]

KeepOnError(row, t) == row

\* syncUserInvestmentToCache, UserInvestment.findOneAndUpdate(..., { upsert: true })
SyncInvestmentUpdate_NoUpsert(row, f, t) ==
    IF row = NoRow THEN NoRow
    ELSE [aClaims |-> f.aClaims, bClaims |-> f.bClaims, redeemed |-> f.redeemed,
          lastSyncedAt |-> t]

SyncInvestmentUpdate(row, f, t) ==
    [aClaims |-> f.aClaims, bClaims |-> f.bClaims, redeemed |-> f.redeemed,
     lastSyncedAt |-> t]

\* syncUserBalanceToCache, UserBalance.findOneAndUpdate(..., { upsert: true })
SyncBalanceUpdate(row, f, t) == [balance |-> f.balance, lastSyncedAt |-> t]

-----------------------------------------------------------------------------
(* The cached reads: GET /:address/info, GET /:address/user/:userAddress    *)
(* (routes/markets.ts) and GET /:address/balance (routes/user.ts)           *)

ReadKinds == {"info", "claim", "balance"}
CacheAddrs == {"m1"}

\* cacheAge < 30000, with cacheAge = Date.now() - lastSyncedAt.getTime()
IsFresh_Inclusive(t, syncedAt) == t - syncedAt <= CacheTTL

IsFresh(t, syncedAt) == t - syncedAt < CacheTTL

\* The document the handler's findOne returns.
LookupRow(kind, a, u) ==
    CASE kind = "info" -> markets[a]
      [] kind = "claim" -> investments[<<a, u>>]
      [] kind = "balance" -> balances[u]

\* `if (doc && doc.lastSyncedAt) { ... if (cacheAge < 30000)`
ServesFromCache(row, t) ==
    /\ row # NoRow
    /\ row.lastSyncedAt # Undef
    /\ IsFresh(t, row.lastSyncedAt)

\* x ?? 0 and x || '0' on a field that may be undefined
OrZero(x) == IF x = Undef THEN 0 ELSE x

\* The body of the cached: true answer.
CachedBody(kind, row) ==
    CASE kind = "info" ->
           [status |-> 200, cached |-> TRUE, phase |-> OrZero(row.phase),
            poolA |-> OrZero(row.poolA), poolB |-> OrZero(row.poolB),
            winner |-> row.winner, lockTime |-> row.lockTime,
            resolveTime |-> row.resolveTime]
      [] kind = "claim" ->
           [status |-> 200, cached |-> TRUE, aClaims |-> row.aClaims,
            bClaims |-> row.bClaims, redeemed |-> row.redeemed]
      [] kind = "balance" ->
           [status |-> 200, cached |-> TRUE, balance |-> row.balance]

\* What one fetch of the handler or of a sync function reads from the ledger.
ChainRead(kind, a, u) ==
    CASE kind = "info" -> chainMkt[a]
      [] kind = "claim" -> chainClaim[<<a, u>>]
      [] kind = "balance" -> [balance |-> chainBal[u]]

\* The body of the cached: false answer, from the handler's own fetch.
FetchedBody(kind, f) ==
    CASE kind = "info" ->
           [status |-> 200, cached |-> FALSE, phase |-> f.phase,
            poolA |-> f.poolA, poolB |-> f.poolB,
            winner |-> WinnerField(f.winner), lockTime |-> f.lockTime,
            resolveTime |-> f.resolveTime]
      [] kind = "claim" ->
           [status |-> 200, cached |-> FALSE, aClaims |-> f.aClaims,
            bClaims |-> f.bClaims, redeemed |-> f.redeemed]
      [] kind = "balance" ->
           [status |-> 200, cached |-> FALSE, balance |-> f.balance]

\* res.status(code).json({ error })
ErrorResp_Swallowed(code) == [status |-> 200, cached |-> FALSE]

ErrorResp(code) == [status |-> code, cached |-> FALSE]

\* A call on a contract answers only where there is code (the token is deployed).
CanAnswer(kind, a) == IF kind = "balance" THEN TRUE ELSE chainCode[a]

\* req.app.get('ENABLE_CACHE') as boolean, as the handlers test it
CacheOn_Always(flag) == TRUE

CacheOn(flag) == flag

\* A request arrives.
RdStart(kind, a, u) ==
    /\ rd.pc \in {"idle", "done"}
    /\ rd.n < MaxReads
    /\ rd' = [n |-> rd.n + 1, pc |-> IF CacheOn(ENABLE_CACHE) THEN "check"
                     ELSE IF kind = "balance" THEN "registry" ELSE "fetch",
              kind |-> kind, addr |-> a, user |-> u, seen |-> NoRow,
              tCheck |-> Undef, fetched |-> NoVal, got |-> NoVal,
              tried |-> FALSE]
    /\ resp' = NoResp
    /\ UNCHANGED <<now, today, ENABLE_CACHE, absentSeen, writeVars, storeVars, chainVars, refreshLog,
                   listVars, batchVars, lbVars>>

\* if (ENABLE_CACHE) { findOne; answer from the cache when it is fresh }
RdCheck ==
    /\ rd.pc = "check"
    /\ LET row == LookupRow(rd.kind, rd.addr, rd.user) IN
       IF ServesFromCache(row, now)
       THEN /\ resp' = CachedBody(rd.kind, row)
            /\ rd' = [rd EXCEPT !.pc = "done", !.seen = row, !.tCheck = now]
       ELSE /\ resp' = resp
            /\ rd' = [rd EXCEPT !.pc = IF rd.kind = "balance" THEN "registry"
                                       ELSE "fetch",
                                !.seen = row, !.tCheck = now]
    /\ UNCHANGED <<now, today, ENABLE_CACHE, absentSeen, writeVars, storeVars, chainVars, refreshLog,
                   listVars, batchVars, lbVars>>

\* GET /:address/balance: Contract.find(); 404 when no stakeToken is registered
RdRegistry ==
    /\ rd.pc = "registry"
    /\ IF stakeToken
       THEN /\ rd' = [rd EXCEPT !.pc = "fetch"]
            /\ resp' = resp
       ELSE /\ rd' = [rd EXCEPT !.pc = "done"]
            /\ resp' = ErrorResp(404)
    /\ UNCHANGED <<now, today, ENABLE_CACHE, absentSeen, writeVars, storeVars, chainVars, refreshLog,
                   listVars, batchVars, lbVars>>

\* "Fetch from chain": the handler's own ledger read; a throw is a 500.
RdFetch(o) ==
    /\ rd.pc = "fetch"
    /\ o = "ok" => CanAnswer(rd.kind, rd.addr)
    /\ IF o = "ok"
       THEN /\ rd' = [rd EXCEPT
                        !.pc = IF ~CacheOn(ENABLE_CACHE) THEN "respond"
                               ELSE IF rd.kind = "balance" THEN "syncRegistry"
                               ELSE "syncCode",
                        !.fetched = ChainRead(rd.kind, rd.addr, rd.user),
                        !.tried = TRUE]
            /\ resp' = resp
       ELSE /\ rd' = [rd EXCEPT !.pc = "done", !.tried = TRUE]
            /\ resp' = ErrorResp(500)
    /\ UNCHANGED <<now, today, ENABLE_CACHE, absentSeen, writeVars, storeVars, chainVars, refreshLog,
                   listVars, batchVars, lbVars>>

\* syncMarketToCache / syncUserInvestmentToCache: provider.getCode
RdSyncCode(o) ==
    /\ rd.pc = "syncCode"
    /\ rd' = [rd EXCEPT !.pc = IF o = "ok" /\ chainCode[rd.addr]
                               THEN "syncRead" ELSE "respond"]
    /\ UNCHANGED <<now, today, ENABLE_CACHE, absentSeen, writeVars, storeVars, chainVars, resp,
                   refreshLog, listVars, batchVars, lbVars>>

\* contracts.find(c => c.type === 'stakeToken'), on the Contract collection
FindsStakeToken_Always(registered) == TRUE

FindsStakeToken(registered) == registered

\* syncUserBalanceToCache: Contract.find(); return when no stakeToken
RdSyncRegistry ==
    /\ rd.pc = "syncRegistry"
    /\ rd' = [rd EXCEPT !.pc = IF FindsStakeToken(stakeToken) THEN "syncRead"
                               ELSE "respond"]
    /\ UNCHANGED <<now, today, ENABLE_CACHE, absentSeen, writeVars, storeVars, chainVars, resp,
                   refreshLog, listVars, batchVars, lbVars>>

\* The sync function's own ledger read; its catch swallows every throw.
RdSyncRead(o) ==
    /\ rd.pc = "syncRead"
    /\ o = "ok" => CanAnswer(rd.kind, rd.addr)
    /\ rd' = IF o = "ok"
             THEN [rd EXCEPT !.pc = "syncWrite",
                             !.got = ChainRead(rd.kind, rd.addr, rd.user)]
             ELSE [rd EXCEPT !.pc = "respond"]
    /\ UNCHANGED <<now, today, ENABLE_CACHE, absentSeen, writeVars, storeVars, chainVars, resp,
                   refreshLog, listVars, batchVars, lbVars>>

\* The sync function's findOneAndUpdate, with lastSyncedAt: new Date()
RdSyncWrite(strip) ==
    /\ rd.pc = "syncWrite"
    /\ rd' = [rd EXCEPT !.pc = "respond"]
    /\ markets' = IF rd.kind = "info"
                  THEN [markets EXCEPT ![rd.addr] =
                            SyncMarketUpdate(@, rd.got, now, strip)]
                  ELSE markets
    /\ refreshLog' = IF rd.kind = "info" /\ markets[rd.addr] # NoRow
                     THEN [refreshLog EXCEPT ![rd.addr] =
                               [at |-> now, phase |-> rd.got.phase, by |-> rd.n,
                                prevAt |-> markets[rd.addr].lastSyncedAt,
                                prevPhase |-> markets[rd.addr].phase]]
                     ELSE refreshLog
    /\ investments' = IF rd.kind = "claim"
                      THEN [investments EXCEPT ![<<rd.addr, rd.user>>] =
                                SyncInvestmentUpdate(@, rd.got, now)]
                      ELSE investments
    /\ balances' = IF rd.kind = "balance"
                   THEN [balances EXCEPT ![rd.user] =
                             SyncBalanceUpdate(@, rd.got, now)]
                   ELSE balances
    /\ UNCHANGED <<now, today, ENABLE_CACHE, absentSeen, writeVars, stakeToken, chainVars, resp,
                   listVars, batchVars, lbVars>>

\* res.json({ ..., cached: false })
RdRespond ==
    /\ rd.pc = "respond"
    /\ rd' = [rd EXCEPT !.pc = "done"]
    /\ resp' = FetchedBody(rd.kind, rd.fetched)
    /\ UNCHANGED <<now, today, ENABLE_CACHE, absentSeen, writeVars, storeVars, chainVars, refreshLog,
                   listVars, batchVars, lbVars>>

-----------------------------------------------------------------------------
(* The clock and the ledger *)

Tick(d) ==
    /\ now + d <= MaxNow
    /\ now' = now + d
    /\ UNCHANGED <<today, ENABLE_CACHE, absentSeen, writeVars, storeVars, chainVars, cacheReqVars,
                   listVars, batchVars, lbVars>>

\* The market contract moves to another phase; a resolved one has a winner.
ChainSetPhase(a, ph, w) ==
    /\ chainCode[a]
    /\ ph # chainMkt[a].phase
    /\ w > 0 <=> ph = 2
    /\ chainMkt' = [chainMkt EXCEPT ![a].phase = ph, ![a].winner = w]
    /\ UNCHANGED <<now, today, ENABLE_CACHE, absentSeen, writeVars, storeVars, chainCode, chainClaim,
                   chainBal, cacheReqVars, listVars, batchVars, lbVars>>

\* A deposit changes the user's claims on the market.
ChainDeposit(a, u) ==
    /\ chainCode[a]
    /\ chainClaim[<<a, u>>].aClaims = 0
    /\ chainClaim' = [chainClaim EXCEPT ![<<a, u>>].aClaims = 5]
    /\ UNCHANGED <<now, today, ENABLE_CACHE, absentSeen, writeVars, storeVars, chainCode, chainMkt,
                   chainBal, cacheReqVars, listVars, batchVars, lbVars>>

\* A transfer changes the user's token balance.
ChainTransfer(u) ==
    /\ chainBal[u] = 0
    /\ chainBal' = [chainBal EXCEPT ![u] = 10]
    /\ UNCHANGED <<now, today, ENABLE_CACHE, absentSeen, writeVars, storeVars, chainCode, chainMkt,
                   chainClaim, cacheReqVars, listVars, batchVars, lbVars>>

\* POST /contracts registers the stake token.
RegisterToken ==
    /\ ~stakeToken
    /\ stakeToken' = TRUE
    /\ UNCHANGED <<now, today, ENABLE_CACHE, absentSeen, writeVars, markets, investments, balances,
                   chainVars, cacheReqVars, listVars, batchVars, lbVars>>


-----------------------------------------------------------------------------
(* The leaderboard: ensureSeedData (db.ts), POST /snapshot                   *)
(* (routes/leaderboard.ts, index.ts), POST /regenerate-leaderboard           *)
(* (routes/admin.ts).  A row is [date, index, name, rank, score]; its sub    *)
(* field is history: the submission (position in hist) that inserted it,     *)
(* which also keeps apart two documents with the same content.  The logo    *)
(* is left out, and submitted entries carry no _id.                          *)

\* Days the clock can reach.
MaxDay == 1

\* Snapshot and regenerate requests started in one behaviour.
MaxSubs == 2

LbProcs == {1, 2}

\* Dates a snapshot can name.
SnapshotDates == {0, 1}

\* FULL_LEADERBOARD (db.ts), cut to its first two of 80 entries.
FULL_LEADERBOARD ==
    << [name |-> "Ethereum", rank |-> 1, score |-> 9500],
       [name |-> "Bitcoin", rank |-> 2, score |-> 9200] >>

\* The entries arrays a snapshot request can carry: rankings of the projects.
SnapshotInputs ==
    { FULL_LEADERBOARD,
      << [name |-> "Bitcoin", rank |-> 1, score |-> 9600],
         [name |-> "Ethereum", rank |-> 2, score |-> 9500] >> }

SeqRange(q) == { q[i] : i \in 1 .. Len(q) }

SetMax(S) == CHOOSE x \in S : \A y \in S : y <= x

\* LeaderboardEntry.find({ date, index })
Group(rows, d, i) == { r \in rows : r.date = d /\ r.index = i }

\* LeaderboardEntry.findOne({ date }).sort({ index: -1 }).select('index'):
\* the highest index stored for the date, Undef when the date has no row
MaxIndexDoc(rows, d) ==
    LET S == { r.index : r \in { x \in rows : x.date = d } } IN
    IF S = {} THEN Undef ELSE SetMax(S)

\* const nextIndex = maxIndexDoc ? maxIndexDoc.index + 1 : 0
NextIndex(rows, d) ==
    IF MaxIndexDoc(rows, d) = Undef THEN 0 ELSE MaxIndexDoc(rows, d) + 1

\* LeaderboardEntry.deleteMany({ date, index })
DeleteGroup(rows, d, i) == rows \ Group(rows, d, i)

\* entries.map(entry => ({ ...entry, date, index })), as inserted documents
Documents(entries, d, i, sub) ==
    { [date |-> d, index |-> i, name |-> e.name, rank |-> e.rank,
       score |-> e.score, sub |-> sub] : e \in SeqRange(entries) }

\* const newScore = 10000 - (newRank - 1) * 250
NewScore(newRank) == 10000 - (newRank - 1) * 250

\* The orders a Fisher-Yates shuffle of the set of rows can give.
Shuffles(S) ==
    { q \in [1 .. Cardinality(S) -> S] : \A r \in S : \E i \in DOMAIN q : q[i] = r }

\* randomized.map((entry, index) => ({ ...entry, rank: index + 1, score }))
NewEntries(randomized) ==
    [i \in DOMAIN randomized |->
        [name |-> randomized[i].name, rank |-> i, score |-> NewScore(i)]]

LbIdle == [pc |-> "idle", kind |-> "snapshot", date |-> 0, entries |-> <<>>,
           nextIndex |-> Undef, after |-> 0]
LbOff == [LbIdle EXCEPT !.pc = "off"]

\* yesterday's seed swaps ranks 1 and 2
SwapTop(entries) ==
    [i \in DOMAIN entries |->
        [entries[i] EXCEPT !.rank = IF @ = 1 THEN 2 ELSE IF @ = 2 THEN 1 ELSE @]]

\* What one insertMany adds to the history; after is the number of
\* submissions stored when the request arrived.
Submission(kind, d, i, entries, after) ==
    [kind |-> kind, date |-> d, index |-> i, entries |-> entries, after |-> after]

\* ensureSeedData, run by startServer before the server listens: no request
\* is in flight.  Seeds (today, 0) and (yesterday, 0) where the date has no row.
Seed ==
    /\ \A p \in LbProcs : lbq[p].pc \in {"idle", "done"}
    /\ LET seedToday == { r \in leaderboard : r.date = today } = {}
           seedYest == { r \in leaderboard : r.date = today - 1 } = {}
           h1 == IF seedToday
                 THEN Append(hist, Submission("seed", today, 0, FULL_LEADERBOARD,
                                          Len(hist)))
                 ELSE hist
           h2 == IF seedYest
                 THEN Append(h1, Submission("seed", today - 1, 0,
                                            SwapTop(FULL_LEADERBOARD), Len(hist)))
                 ELSE h1
       IN /\ seedToday \/ seedYest
          /\ hist' = h2
          /\ leaderboard' =
                leaderboard
                \cup (IF seedToday
                      THEN Documents(FULL_LEADERBOARD, today, 0, Len(h1))
                      ELSE {})
                \cup (IF seedYest
                      THEN Documents(SwapTop(FULL_LEADERBOARD), today - 1, 0, Len(h2))
                      ELSE {})
    /\ UNCHANGED <<now, today, ENABLE_CACHE, absentSeen, writeVars, storeVars, chainVars, cacheReqVars,
                   listVars, batchVars, lbq, nreq>>

\* POST /snapshot arrives with { date, entries }.
SnapStart(p, d, entries) ==
    /\ lbq[p].pc \in {"idle", "done"}
    /\ nreq < MaxSubs
    /\ nreq' = nreq + 1
    /\ lbq' = [lbq EXCEPT ![p] = [pc |-> "max", kind |-> "snapshot", date |-> d,
                                  entries |-> entries, nextIndex |-> Undef,
                                  after |-> Len(hist)]]
    /\ UNCHANGED <<now, today, ENABLE_CACHE, absentSeen, writeVars, storeVars, chainVars, cacheReqVars,
                   listVars, batchVars, leaderboard, hist>>

\* "Find the highest index for this date"
SnapMax(p) ==
    /\ lbq[p].pc = "max"
    /\ lbq[p].kind = "snapshot"
    /\ lbq' = [lbq EXCEPT ![p].pc = "delete",
                          ![p].nextIndex = NextIndex(leaderboard, lbq[p].date)]
    /\ UNCHANGED <<now, today, ENABLE_CACHE, absentSeen, writeVars, storeVars, chainVars, cacheReqVars,
                   listVars, batchVars, leaderboard, hist, nreq>>

\* POST /regenerate-leaderboard arrives; today = getDateOnly(new Date()).
RegenStart(p) ==
    /\ lbq[p].pc \in {"idle", "done"}
    /\ nreq < MaxSubs
    /\ nreq' = nreq + 1
    /\ lbq' = [lbq EXCEPT ![p] = [pc |-> "max", kind |-> "regenerate",
                                  date |-> today, entries |-> <<>>,
                                  nextIndex |-> Undef, after |-> Len(hist)]]
    /\ UNCHANGED <<now, today, ENABLE_CACHE, absentSeen, writeVars, storeVars, chainVars, cacheReqVars,
                   listVars, batchVars, leaderboard, hist>>

\* "Get latest leaderboard": 404 when today has no row
RegenMax(p) ==
    /\ lbq[p].pc = "max"
    /\ lbq[p].kind = "regenerate"
    /\ LET m == MaxIndexDoc(leaderboard, lbq[p].date) IN
       lbq' = IF m = Undef
              THEN [lbq EXCEPT ![p].pc = "done"]
              ELSE [lbq EXCEPT ![p].pc = "read", ![p].nextIndex = m + 1]
    /\ UNCHANGED <<now, today, ENABLE_CACHE, absentSeen, writeVars, storeVars, chainVars, cacheReqVars,
                   listVars, batchVars, leaderboard, hist, nreq>>

\* find({ date: today, index: maxIndex }), the shuffle and the new ranks
RegenRead(p) ==
    /\ lbq[p].pc = "read"
    /\ \E randomized \in
            Shuffles(Group(leaderboard, lbq[p].date, lbq[p].nextIndex - 1)) :
          lbq' = [lbq EXCEPT ![p].pc = "delete",
                             ![p].entries = NewEntries(randomized)]
    /\ UNCHANGED <<now, today, ENABLE_CACHE, absentSeen, writeVars, storeVars, chainVars, cacheReqVars,
                   listVars, batchVars, leaderboard, hist, nreq>>

\* deleteMany({ date, index: nextIndex }), of both handlers
LbDelete(p) ==
    /\ lbq[p].pc = "delete"
    /\ lbq' = [lbq EXCEPT ![p].pc = "insert"]
    /\ leaderboard' = DeleteGroup(leaderboard, lbq[p].date, lbq[p].nextIndex)
    /\ UNCHANGED <<now, today, ENABLE_CACHE, absentSeen, writeVars, storeVars, chainVars, cacheReqVars,
                   listVars, batchVars, hist, nreq>>

\* insertMany(entries) and the response, of both handlers
LbInsert(p) ==
    /\ lbq[p].pc = "insert"
    /\ lbq' = [lbq EXCEPT ![p].pc = "done"]
    /\ hist' = Append(hist, Submission(lbq[p].kind, lbq[p].date, lbq[p].nextIndex,
                                       lbq[p].entries, lbq[p].after))
    /\ leaderboard' = leaderboard \cup
            Documents(lbq[p].entries, lbq[p].date, lbq[p].nextIndex, Len(hist) + 1)
    /\ UNCHANGED <<now, today, ENABLE_CACHE, absentSeen, writeVars, storeVars, chainVars, cacheReqVars,
                   listVars, batchVars, nreq>>

\* Midnight UTC passes.
NextDay ==
    /\ today < MaxDay
    /\ today' = today + 1
    /\ UNCHANGED <<now, ENABLE_CACHE, absentSeen, writeVars, storeVars, chainVars, cacheReqVars,
                   listVars, batchVars, lbVars>>


-----------------------------------------------------------------------------
(* syncMarketPhases: utils/sync.ts ("sync") and the older copy in index.ts  *)
(* ("legacy").  A run belongs to the request that started it; it reads the   *)
(* whole collection once and then visits the documents it read one by one.   *)

ListSlots == {1}
ImpProcs == {1, 2}
WrSweep == <<"wr", 1>>
SweepOwners == ({"list"} \X ListSlots) \cup ({"imp"} \X ImpProcs) \cup {WrSweep}

SweepOff == [pc |-> "off", variant |-> "sync", docs |-> <<>>, i |-> 0,
             got |-> NoVal, calls |-> 0]

\* the call syncMarketPhases(provider), up to its first await
StartSweep(variant) == [SweepOff EXCEPT !.pc = "find", !.variant = variant]

\* The order in which Market.find() returns the documents.
AddrOrder == <<"m1", "m2">>

\* const markets = await Market.find()
FindAll(rows) ==
    LET present == SelectSeq(AddrOrder, LAMBDA a : rows[a] # NoRow) IN
    [j \in 1 .. Len(present) |->
        [addr |-> present[j], doc |-> rows[present[j]], gone |-> FALSE]]

\* for (const market of markets): the next document, or the end of the run
SweepAdvance(s) ==
    IF s.i < Len(s.docs)
    THEN [s EXCEPT !.pc = "code", !.i = @ + 1, !.got = NoVal]
    ELSE [SweepOff EXCEPT !.pc = "done", !.variant = s.variant]

\* The catch block inside the loop: the error is logged and the loop goes on
\* with the next document.
SweepCatch_Rethrow(s) == [SweepOff EXCEPT !.pc = "done", !.variant = s.variant]

SweepCatch(s) == SweepAdvance(s)

\* market.save() writes the paths whose assigned value differs from the
\* value the document was loaded with.
Modified(row, doc, f, v) == IF v # doc[f] THEN v ELSE row[f]

\* The document after market.save() of a run; save() addresses the document
\* by _id and throws (caught by the loop) when it has been deleted (gone),
\* also when the address has a new document by then.
SaveDoc(row, doc, gone, f, t, variant) ==
    IF row = NoRow \/ gone THEN row
    ELSE IF variant = "legacy"
    THEN [row EXCEPT !.phase = Modified(row, doc, "phase", f.phase),
                     !.status = Modified(row, doc, "status", phaseToStatus(f.phase))]
    ELSE [row EXCEPT !.phase = Modified(row, doc, "phase", f.phase),
                     !.status = Modified(row, doc, "status", phaseToStatus(f.phase)),
                     !.poolA = Modified(row, doc, "poolA", f.poolA),
                     !.poolB = Modified(row, doc, "poolB", f.poolB),
                     !.winner = Modified(row, doc, "winner", WinnerField(f.winner)),
                     !.lastSyncedAt = Modified(row, doc, "lastSyncedAt", t)]

\* What the call syncMarketPhases(...) resolves to: the function has no
\* return statement.
SweepResult(s) == NoVal

\* POST /close-all: market.phase = 1; market.status = 'locked';
\* market.save(), which throws when the document has been deleted.
CloseSave(row, doc, gone) ==
    IF row = NoRow \/ gone THEN row
    ELSE [row EXCEPT !.phase = Modified(row, doc, "phase", 1),
                     !.status = Modified(row, doc, "status", "locked")]

SweepFind(o) ==
    /\ sweeps[o].pc = "find"
    /\ sweeps' = [sweeps EXCEPT ![o] = SweepAdvance([@ EXCEPT !.docs = FindAll(markets)])]
    /\ UNCHANGED <<now, today, ENABLE_CACHE, absentSeen, writeVars, storeVars, chainVars, cacheReqVars,
                   ls, batchVars, lbVars>>

\* await provider.getCode(market.marketAddress)
SweepCode(o, out) ==
    /\ sweeps[o].pc = "code"
    /\ LET s == [sweeps[o] EXCEPT !.calls = @ + 1]
           a == s.docs[s.i].addr
       IN /\ sweeps' = [sweeps EXCEPT ![o] =
                        IF out # "ok" THEN SweepCatch(s)
                        ELSE IF IsAbsent(chainCode[a]) THEN SweepAdvance(s)
                        ELSE [s EXCEPT !.pc = "fetch"]]
          /\ absentSeen' = IF out = "ok" /\ IsAbsent(chainCode[a]) /\ o[1] = "list"
                           THEN absentSeen \cup {a} ELSE absentSeen
    /\ UNCHANGED <<now, today, ENABLE_CACHE, writeVars, storeVars, chainVars, cacheReqVars,
                   ls, batchVars, lbVars>>

\* sync: Promise.all([phase(), pools(), winner()]); legacy: phase() alone,
\* and no save when phase and status are already the stored ones
SweepFetch(o, out) ==
    /\ sweeps[o].pc = "fetch"
    /\ LET s == [sweeps[o] EXCEPT !.calls = @ + 1]
           d == s.docs[s.i]
           f == chainMkt[d.addr]
       IN /\ sweeps' = [sweeps EXCEPT ![o] =
                           IF out # "ok" THEN SweepCatch(s)
                           ELSE IF /\ s.variant = "legacy"
                                   /\ d.doc.phase = f.phase
                                   /\ d.doc.status = phaseToStatus(f.phase)
                           THEN SweepAdvance(s)
                           ELSE [s EXCEPT !.pc = "save", !.got = f]]
          /\ markets' = IF out # "ok"
                        THEN [markets EXCEPT ![d.addr] = KeepOnError(@, now)]
                        ELSE markets
    /\ UNCHANGED <<now, today, ENABLE_CACHE, absentSeen, writeVars, investments, balances,
                   stakeToken, chainVars, cacheReqVars, ls, batchVars, lbVars>>

\* await market.save()
SweepSave(o) ==
    /\ sweeps[o].pc = "save"
    /\ LET s == sweeps[o]
           d == s.docs[s.i]
           row == SaveDoc(markets[d.addr], d.doc, d.gone, s.got, now, s.variant)
       IN /\ markets' = [markets EXCEPT ![d.addr] = row]
          /\ sweeps' = [sweeps EXCEPT ![o] = SweepAdvance(s)]
    /\ UNCHANGED <<now, today, ENABLE_CACHE, absentSeen, writeVars, investments, balances, stakeToken,
                   chainVars, cacheReqVars, ls, batchVars, lbVars>>

-----------------------------------------------------------------------------
(* The market-list read: GET / of routes/markets.ts ("router") and           *)
(* GET /api/markets of index.ts ("legacy").  A slot takes its next request   *)
(* once the request and the sweep it started have ended.                     *)

\* The two builds of the server; a behaviour runs one of them.
ListVariants == {"router", "legacy"}

\* The copy of syncMarketPhases a build calls.
SweepOf(variant) == IF variant = "legacy" THEN "legacy" ELSE "sync"

LsOff == [pc |-> "off", variant |-> "router", latest |-> NoVal, rows |-> {},
          responded |-> FALSE]
LsIdle == [LsOff EXCEPT !.pc = "idle"]

\* The stored rows, each with its marketAddress.
Stored(rows) == { [addr |-> a, doc |-> rows[a]] : a \in { x \in Addrs : rows[x] # NoRow } }

BatchOf(row) == [deploymentDate |-> row.deploymentDate,
                 deploymentIndex |-> row.deploymentIndex]

\* Market.findOne().sort({ deploymentDate: -1, deploymentIndex: -1 })
\*   .select('deploymentDate deploymentIndex'): NoVal when the collection is empty
LatestDeployment_IndexFirst(rows) ==
    LET S == Stored(rows) IN
    IF S = {} THEN NoVal
    ELSE LET i == SetMax({ r.doc.deploymentIndex : r \in S })
             d == SetMax({ r.doc.deploymentDate :
                              r \in { x \in S : x.doc.deploymentIndex = i } })
         IN [deploymentDate |-> d, deploymentIndex |-> i]

LatestDeployment(rows) ==
    LET S == Stored(rows) IN
    IF S = {} THEN NoVal
    ELSE LET d == SetMax({ r.doc.deploymentDate : r \in S })
             i == SetMax({ r.doc.deploymentIndex :
                              r \in { x \in S : x.doc.deploymentDate = d } })
         IN [deploymentDate |-> d, deploymentIndex |-> i]

\* Market.find({ deploymentDate, deploymentIndex }), and Market.find() when
\* there is no latest deployment
LatestOnly_DateOnly(rows, latest) ==
    IF latest = NoVal THEN Stored(rows)
    ELSE { r \in Stored(rows) : r.doc.deploymentDate = latest.deploymentDate }

LatestOnly(rows, latest) ==
    IF latest = NoVal THEN Stored(rows)
    ELSE { r \in Stored(rows) : BatchOf(r.doc) = latest }

\* { lastSyncedAt: { $exists: false } } or { lastSyncedAt: { $lt: now - 30000 } }
IsStaleRow(row, t) == row.lastSyncedAt = Undef \/ row.lastSyncedAt < t - CacheTTL

\* index.ts awaits syncMarketPhases() before it reads; the router does not.
AwaitsSweep_Always(variant) == TRUE

AwaitsSweep(variant) == variant = "legacy"

LsSweep(k) == <<"list", k>>

LsStart(k) ==
    /\ ls[k].pc \in {"idle", "done"}
    /\ sweeps[LsSweep(k)].pc \in {"off", "done"}
    /\ IF AwaitsSweep(ls[k].variant)
       THEN /\ ls' = [ls EXCEPT ![k] = [LsIdle EXCEPT !.pc = "sweep",
                                                      !.variant = ls[k].variant]]
            /\ sweeps' = [sweeps EXCEPT ![LsSweep(k)] =
                             StartSweep(SweepOf(ls[k].variant))]
       ELSE /\ ls' = [ls EXCEPT ![k] = [LsIdle EXCEPT !.pc = "latest",
                                                      !.variant = ls[k].variant]]
            /\ sweeps' = [sweeps EXCEPT ![LsSweep(k)] = SweepOff]
    /\ UNCHANGED <<now, today, ENABLE_CACHE, absentSeen, writeVars, storeVars, chainVars, cacheReqVars,
                   batchVars, lbVars>>

\* legacy: await syncMarketPhases() returns
LsSwept(k) ==
    /\ ls[k].pc = "sweep"
    /\ sweeps[LsSweep(k)].pc = "done"
    /\ ls' = [ls EXCEPT ![k].pc = "latest"]
    /\ UNCHANGED <<now, today, ENABLE_CACHE, absentSeen, writeVars, storeVars, chainVars, cacheReqVars,
                   sweeps, batchVars, lbVars>>

\* "Find the latest deployment (highest date + index)"
LsLatest(k) ==
    /\ ls[k].pc = "latest"
    /\ ls' = [ls EXCEPT ![k].pc = "find", ![k].latest = LatestDeployment(markets)]
    /\ UNCHANGED <<now, today, ENABLE_CACHE, absentSeen, writeVars, storeVars, chainVars, cacheReqVars,
                   sweeps, batchVars, lbVars>>

\* The find, res.json(markets) and, in the router, what follows up to the
\* next await: with the cache disabled the sweep is started at once.
LsFind(k) ==
    /\ ls[k].pc = "find"
    /\ LET r == [ls[k] EXCEPT !.rows = LatestOnly(markets, ls[k].latest),
                              !.latest = NoVal, !.responded = TRUE]
       IN IF ls[k].variant = "legacy"
          THEN /\ ls' = [ls EXCEPT ![k] = [r EXCEPT !.pc = "done"]]
               /\ UNCHANGED sweeps
          ELSE IF ~ENABLE_CACHE
          THEN /\ ls' = [ls EXCEPT ![k] = [r EXCEPT !.pc = "done"]]
               /\ sweeps' = [sweeps EXCEPT ![LsSweep(k)] =
                                StartSweep(SweepOf(ls[k].variant))]
          ELSE /\ ls' = [ls EXCEPT ![k] = [r EXCEPT !.pc = "stale"]]
               /\ UNCHANGED sweeps
    /\ UNCHANGED <<now, today, ENABLE_CACHE, absentSeen, writeVars, storeVars, chainVars, cacheReqVars,
                   batchVars, lbVars>>

\* "Check if cache needs refresh (any market cache older than 30s)"
LsStale(k) ==
    /\ ls[k].pc = "stale"
    /\ ls' = [ls EXCEPT ![k].pc = "done"]
    /\ sweeps' = IF \E r \in Stored(markets) : IsStaleRow(r.doc, now)
                 THEN [sweeps EXCEPT ![LsSweep(k)] =
                          StartSweep(SweepOf(ls[k].variant))]
                 ELSE sweeps
    /\ UNCHANGED <<now, today, ENABLE_CACHE, absentSeen, writeVars, storeVars, chainVars, cacheReqVars,
                   batchVars, lbVars>>

-----------------------------------------------------------------------------
(* POST /markets/import: routes/admin.ts ("router") and index.ts ("legacy"), *)
(* which differ in the copy of syncMarketPhases they await.                  *)

\* Imports started in one behaviour.
MaxImports == 2

\* One element of the markets array of the request body: its marketAddress,
\* whether it carries a marketId, and its lockTime.
Entry(a, hasId, lockTime) ==
    [marketAddress |-> a, hasId |-> hasId, lockTime |-> lockTime]

\* The markets member of the request bodies; isArray is Array.isArray(markets).
ImportBodies ==
    { [isArray |-> FALSE, list |-> <<>>],
      [isArray |-> TRUE, list |-> << Entry("m1", TRUE, 100) >>],
      [isArray |-> TRUE,
       list |-> << Entry("m1", FALSE, 100), Entry("m2", TRUE, 100) >>] }

\* The bodies of two imports in flight at once: two of them carry the same
\* market with different field values.
RaceBodies ==
    { [isArray |-> TRUE, list |-> << Entry("m1", TRUE, 100) >>],
      [isArray |-> TRUE, list |-> << Entry("m1", TRUE, 150) >>] }

ImpOff == [pc |-> "off", variant |-> "router", clear |-> FALSE, body |-> <<>>,
           date |-> 0, deploymentIndex |-> 0, i |-> 1, upserted |-> 0,
           resp |-> NoVal]
ImpIdle == [ImpOff EXCEPT !.pc = "idle"]

ImpSweep(p) == <<"imp", p>>

\* Market.findOne({ deploymentDate }).sort({ deploymentIndex: -1 }), then
\* deploymentIndex = maxDeploymentDoc ? (maxDeploymentDoc.deploymentIndex || 0) + 1 : 0
NextDeploymentIndex_NoIncrement(rows, d) ==
    LET S == { r.doc.deploymentIndex :
                  r \in { x \in Stored(rows) : x.doc.deploymentDate = d } }
    IN IF S = {} THEN 0 ELSE SetMax(S)

NextDeploymentIndex_Reserved(rows, d) ==
    LET S == { r.doc.deploymentIndex :
                  r \in { x \in Stored(rows) : x.doc.deploymentDate = d } }
             \cup { imp[q].deploymentIndex :
                      q \in { x \in ImpProcs : /\ imp[x].pc \in {"upsert", "sweep"}
                                               /\ ~imp[x].clear
                                               /\ imp[x].date = d } }
    IN IF S = {} THEN 0 ELSE SetMax(S) + 1

NextDeploymentIndex(rows, d) ==
    LET S == { r.doc.deploymentIndex :
                  r \in { x \in Stored(rows) : x.doc.deploymentDate = d } }
    IN IF S = {} THEN 0 ELSE SetMax(S) + 1

\* findOneAndUpdate({ marketAddress }, { ...market, status, deploymentDate,
\* deploymentIndex }, { upsert: true }): an existing document keeps its _id
\* and its cache fields; status is set from the body, which carries none.
ImportUpsert_InsertOnly(row, e, d, i) ==
    IF row = NoRow THEN [ImportedRow(d, i) EXCEPT !.lockTime = e.lockTime]
    ELSE row

ImportUpsert(row, e, d, i) ==
    IF row = NoRow THEN [ImportedRow(d, i) EXCEPT !.lockTime = e.lockTime]
    ELSE [row EXCEPT !.status = phaseToStatus(0), !.lockTime = e.lockTime,
                     !.resolveTime = 200, !.deploymentDate = d,
                     !.deploymentIndex = i]

ImpStart(p, body, clear) ==
    /\ imp[p].pc \in {"idle", "done"}
    /\ nimp < MaxImports
    /\ nimp' = nimp + 1
    /\ imp' = [imp EXCEPT ![p] =
                 IF ~body.isArray
                 THEN [ImpIdle EXCEPT !.pc = "done", !.variant = imp[p].variant,
                                      !.resp = [status |-> 400]]
                 ELSE [ImpIdle EXCEPT !.pc = IF clear THEN "clear" ELSE "max",
                                      !.variant = imp[p].variant, !.clear = clear,
                                      !.body = body.list, !.date = today]]
    /\ sweeps' = [sweeps EXCEPT ![ImpSweep(p)] = SweepOff]
    /\ UNCHANGED <<now, today, ENABLE_CACHE, absentSeen, writeVars, storeVars, chainVars, cacheReqVars,
                   ls, lbVars>>

\* Market.deleteMany({})
DeleteAll_None(rows) == rows

DeleteAll(rows) == [a \in DOMAIN rows |-> NoRow]

\* The documents a run holds, once the collection has been emptied.
AllGone(s) == [s EXCEPT !.docs = [j \in DOMAIN @ |-> [@[j] EXCEPT !.gone = TRUE]]]

\* The UserInvestment and UserBalance collections across the deleteMany of
\* an import, which is called on the Market model alone.
AcrossClear_Deleted(rows) == [k \in DOMAIN rows |-> NoRow]

AcrossClear(rows) == rows

\* clearExisting: await Market.deleteMany({}); deploymentIndex = 0
ImpClear(p) ==
    /\ imp[p].pc = "clear"
    /\ markets' = DeleteAll(markets)
    /\ investments' = AcrossClear(investments)
    /\ balances' = AcrossClear(balances)
    /\ sweeps' = [o \in SweepOwners |-> AllGone(sweeps[o])]
    /\ imp' = [imp EXCEPT ![p].pc = "upsert", ![p].deploymentIndex = 0]
    /\ UNCHANGED <<now, today, ENABLE_CACHE, absentSeen, writeVars, stakeToken,
                   chainVars, cacheReqVars, ls, nimp, lbVars>>

\* "Find the highest deployment index for today"
ImpMax(p) ==
    /\ imp[p].pc = "max"
    /\ imp' = [imp EXCEPT ![p].pc = "upsert",
                          ![p].deploymentIndex =
                              NextDeploymentIndex(markets, imp[p].date)]
    /\ UNCHANGED <<now, today, ENABLE_CACHE, absentSeen, writeVars, storeVars, chainVars, cacheReqVars,
                   listVars, nimp, lbVars>>

\* One turn of the loop over the body: an element without marketAddress or
\* marketId is passed over.
ImpUpsert(p) ==
    /\ imp[p].pc = "upsert"
    /\ imp[p].i <= Len(imp[p].body)
    /\ LET e == imp[p].body[imp[p].i] IN
       IF e.hasId
       THEN /\ markets' = [markets EXCEPT ![e.marketAddress] =
                              ImportUpsert(@, e, imp[p].date, imp[p].deploymentIndex)]
            /\ imp' = [imp EXCEPT ![p].i = @ + 1, ![p].upserted = @ + 1]
       ELSE /\ imp' = [imp EXCEPT ![p].i = @ + 1]
            /\ UNCHANGED markets
    /\ UNCHANGED <<now, today, ENABLE_CACHE, absentSeen, writeVars, investments, balances, stakeToken,
                   chainVars, cacheReqVars, listVars, nimp, lbVars>>

\* await syncMarketPhases(provider)
ImpSweepStart(p) ==
    /\ imp[p].pc = "upsert"
    /\ imp[p].i > Len(imp[p].body)
    /\ imp' = [imp EXCEPT ![p].pc = "sweep"]
    /\ sweeps' = [sweeps EXCEPT ![ImpSweep(p)] =
                     StartSweep(SweepOf(imp[p].variant))]
    /\ UNCHANGED <<now, today, ENABLE_CACHE, absentSeen, writeVars, storeVars, chainVars, cacheReqVars,
                   ls, nimp, lbVars>>

\* res.json({ success, count, cleared, deploymentDate, deploymentIndex })
ImpRespond(p) ==
    /\ imp[p].pc = "sweep"
    /\ sweeps[ImpSweep(p)].pc = "done"
    /\ imp' = [imp EXCEPT ![p] =
                 [ImpIdle EXCEPT !.pc = "done", !.variant = imp[p].variant,
                                 !.resp = [status |-> 200, count |-> imp[p].upserted,
                                           cleared |-> imp[p].clear,
                                           deploymentDate |-> imp[p].date,
                                           deploymentIndex |->
                                               IF imp[p].clear THEN 0
                                               ELSE imp[p].deploymentIndex]]]
    /\ sweeps' = [sweeps EXCEPT ![ImpSweep(p)] = SweepOff]
    /\ UNCHANGED <<now, today, ENABLE_CACHE, absentSeen, writeVars, storeVars, chainVars, cacheReqVars,
                   ls, nimp, lbVars>>

-----------------------------------------------------------------------------
(* The requests that refresh the cache on demand: POST /cache/update         *)
(* (routes/cache.ts), POST /sync-phases and POST /close-all (routes/admin.ts *)
(* and index.ts), POST /faucet (routes/faucet.ts and index.ts).  One is      *)
(* served at a time; the sync function it awaits runs as steps of its own.   *)

\* Requests of this family started in one behaviour.
MaxWrites == 2

WrOps == {"update", "syncPhases", "closeAll", "faucet"}

\* block.timestamp of provider.getBlock('latest'), in seconds: before and
\* after the lockTime of the markets.
BlockTimes == {50, 150}

\* ethers.parseEther(amount) of the faucet request, in tokens.
FaucetAmount == 10

WrIdle == [WrOff EXCEPT !.pc = "idle"]

\* The request has answered; of its local variables the history keeps the
\* user it named, the markets it closed and the documents it refreshed.
WrDone(w, r) ==
    [WrOff EXCEPT !.pc = "done", !.op = w.op, !.variant = w.variant,
                  !.user = w.user, !.closed = w.closed, !.txs = w.txs,
                  !.refreshed = w.refreshed, !.resp = r]

\* The key of the document the sync function in progress writes.
SyncKey(w) ==
    CASE w.sync = "info" -> <<"info", w.addr, "none">>
      [] w.sync = "claim" -> <<"claim", w.addr, w.user>>
      [] w.sync = "balance" -> <<"balance", "none", w.user>>

\* POST /cache/update: the updates array when the handler answers; a key is
\* pushed after the await of its sync call, whatever that call did.
Updates(w) ==
    (IF w.addr # "none" THEN {<<"info", w.addr, "none">>} ELSE {})
    \cup (IF w.addr # "none" /\ w.user # "none"
          THEN {<<"claim", w.addr, w.user>>} ELSE {})
    \cup (IF w.user # "none" THEN {<<"balance", "none", w.user>>} ELSE {})

\* POST /cache/update: the sync calls of the handler from the st-th on:
\* syncMarketToCache if marketAddress, syncUserInvestmentToCache if both,
\* syncUserBalanceToCache if userAddress, then the answer.
UpdateFrom(w, st) ==
    IF st <= 1 /\ w.addr # "none"
    THEN [w EXCEPT !.pc = "syncCode", !.sync = "info", !.stage = 1, !.got = NoVal]
    ELSE IF st <= 2 /\ w.addr # "none" /\ w.user # "none"
    THEN [w EXCEPT !.pc = "syncCode", !.sync = "claim", !.stage = 2, !.got = NoVal]
    ELSE IF st <= 3 /\ w.user # "none"
    THEN [w EXCEPT !.pc = "syncRegistry", !.sync = "balance", !.stage = 3,
                   !.got = NoVal]
    ELSE WrDone(w, [status |-> 200, success |-> TRUE, skipped |-> FALSE,
                    updated |-> Updates(w)])

\* r.status.includes(word), for the words the summary filters by.  The
\* status strings of the results entries are kept without the parts that vary:
\* "closed" (plus the transaction hash), "not-ready" (plus the waiting time),
\* "already-closed-or-not-trading", and "error" for an error's message.
Includes(status, word) ==
    CASE word = "closed" -> status \in {"closed", "already-closed-or-not-trading"}
      [] word = "not-ready" -> status = "not-ready"
      [] word = "already-closed" -> status = "already-closed-or-not-trading"

\* results.filter(r => ...).length
FilterCount(results, word) ==
    Cardinality({ j \in DOMAIN results : Includes(results[j].status, word) })

\* The summary of POST /close-all.
CloseSummary(docs, results) ==
    [total |-> Len(docs),
     closed |-> FilterCount(results, "closed"),
     notReady |-> FilterCount(results, "not-ready"),
     alreadyClosed |-> FilterCount(results, "already-closed"),
     errors |-> Cardinality({ j \in DOMAIN results : results[j].phase = -1 })]

\* POST /close-all, for (const market of markets): the next document, or the
\* summary answer after the last one.
CloseAdvance(w) ==
    IF w.i < Len(w.docs)
    THEN [w EXCEPT !.pc = "closeRead", !.i = @ + 1, !.addr = w.docs[w.i + 1].addr,
                   !.sync = "none", !.got = NoVal]
    ELSE WrDone(w, [status |-> 200, success |-> TRUE, total |-> Len(w.docs),
                    closed |-> Cardinality(w.closed),
                    summary |-> CloseSummary(w.docs, w.results),
                    results |-> w.results])

\* results.push({ marketAddress, phase, status, ... }) and the end of the
\* turn of the loop (continue, or the end of the try or catch block)
ClosePush_Abort(w, phase, status) ==
    LET pushed == [w EXCEPT !.results =
                      Append(@, [marketAddress |-> w.addr, phase |-> phase,
                                 status |-> status])]
    IN IF phase = -1 THEN CloseAdvance([pushed EXCEPT !.i = Len(w.docs)])
       ELSE CloseAdvance(pushed)

ClosePush(w, phase, status) ==
    CloseAdvance([w EXCEPT !.results =
                     Append(@, [marketAddress |-> w.addr, phase |-> phase,
                                status |-> status])])

\* The handler goes on after the sync function it awaited has returned.
AfterSync(w) ==
    CASE w.op = "update" -> UpdateFrom(w, w.stage + 1)
      [] w.op = "closeAll" -> ClosePush(w, 1, "closed")
      [] w.op = "faucet" -> WrDone(w, [status |-> 200, success |-> TRUE])

\* A request arrives.  The older build has no POST /cache/update.
WrStart(op, a, u) ==
    /\ wr.pc \in {"idle", "done"}
    /\ nwr < MaxWrites
    /\ nwr' = nwr + 1
    /\ op = "update" => wr.variant = "router" /\ (a # "none" \/ u # "none")
    /\ op \in {"syncPhases", "closeAll"} => a = "none" /\ u = "none"
    /\ op = "faucet" => a = "none" /\ u # "none"
    /\ LET w == [WrIdle EXCEPT !.op = op, !.variant = wr.variant, !.addr = a,
                               !.user = u]
       IN /\ wr' = CASE op = "update" ->
                        IF CacheOn(ENABLE_CACHE) THEN UpdateFrom(w, 1)
                        ELSE WrDone(w, [status |-> 200, success |-> TRUE,
                                        skipped |-> TRUE])
                     [] op = "syncPhases" -> [w EXCEPT !.pc = "sweep"]
                     [] op = "closeAll" -> [w EXCEPT !.pc = "find"]
                     [] op = "faucet" ->
                        [w EXCEPT !.pc = IF w.variant = "router" THEN "fRegistry"
                                         ELSE "fTransfer"]
          /\ sweeps' = IF op = "syncPhases"
                       THEN [sweeps EXCEPT ![WrSweep] =
                                StartSweep(SweepOf(w.variant))]
                       ELSE sweeps
    /\ UNCHANGED <<now, today, ENABLE_CACHE, absentSeen, storeVars, chainVars, cacheReqVars,
                   ls, batchVars, lbVars>>

\* syncMarketToCache / syncUserInvestmentToCache: provider.getCode; the
\* function returns when there is no code, and when the call throws
WrSyncCode(o) ==
    /\ wr.pc = "syncCode"
    /\ LET w == [wr EXCEPT !.calls = @ + 1] IN
       wr' = IF o = "ok" /\ ~IsAbsent(chainCode[wr.addr])
             THEN [w EXCEPT !.pc = "syncRead"]
             ELSE AfterSync(w)
    /\ UNCHANGED <<now, today, ENABLE_CACHE, absentSeen, nwr, storeVars, chainVars,
                   cacheReqVars, listVars, batchVars, lbVars>>

\* syncUserBalanceToCache: Contract.find(); return when no stakeToken
WrSyncRegistry ==
    /\ wr.pc = "syncRegistry"
    /\ wr' = IF FindsStakeToken(stakeToken) THEN [wr EXCEPT !.pc = "syncRead"]
             ELSE AfterSync(wr)
    /\ UNCHANGED <<now, today, ENABLE_CACHE, absentSeen, nwr, storeVars, chainVars,
                   cacheReqVars, listVars, batchVars, lbVars>>

\* The ledger read of the sync function; its catch block swallows a throw.
WrSyncRead(o) ==
    /\ wr.pc = "syncRead"
    /\ o = "ok" => CanAnswer(wr.sync, wr.addr)
    /\ LET w == [wr EXCEPT !.calls = @ + 1] IN
       wr' = IF o = "ok"
             THEN [w EXCEPT !.pc = "syncWrite",
                            !.got = ChainRead(wr.sync, wr.addr, wr.user)]
             ELSE AfterSync(w)
    /\ markets' = IF o # "ok" /\ wr.sync = "info"
                  THEN [markets EXCEPT ![wr.addr] = KeepOnError(@, now)]
                  ELSE markets
    /\ investments' = IF o # "ok" /\ wr.sync = "claim"
                      THEN [investments EXCEPT ![<<wr.addr, wr.user>>] =
                                KeepOnError(@, now)]
                      ELSE investments
    /\ balances' = IF o # "ok" /\ wr.sync = "balance"
                   THEN [balances EXCEPT ![wr.user] = KeepOnError(@, now)]
                   ELSE balances
    /\ UNCHANGED <<now, today, ENABLE_CACHE, absentSeen, nwr, stakeToken, chainVars,
                   cacheReqVars, listVars, batchVars, lbVars>>

\* The findOneAndUpdate of the sync function, with lastSyncedAt: new Date()
WrSyncWrite(strip) ==
    /\ wr.pc = "syncWrite"
    /\ LET wrote == wr.sync = "info" => markets[wr.addr] # NoRow IN
       wr' = AfterSync([wr EXCEPT !.refreshed =
                           IF wrote THEN @ \cup {SyncKey(wr)} ELSE @])
    /\ markets' = IF wr.sync = "info"
                  THEN [markets EXCEPT ![wr.addr] =
                            SyncMarketUpdate(@, wr.got, now, strip)]
                  ELSE markets
    /\ investments' = IF wr.sync = "claim"
                      THEN [investments EXCEPT ![<<wr.addr, wr.user>>] =
                                SyncInvestmentUpdate(@, wr.got, now)]
                      ELSE investments
    /\ balances' = IF wr.sync = "balance"
                   THEN [balances EXCEPT ![wr.user] =
                             SyncBalanceUpdate(@, wr.got, now)]
                   ELSE balances
    /\ UNCHANGED <<now, today, ENABLE_CACHE, absentSeen, nwr, stakeToken, chainVars,
                   cacheReqVars, listVars, batchVars, lbVars>>

\* POST /sync-phases: await syncMarketPhases(provider) has returned, with no
\* value; res.json({ success: true })
WrSweepDone ==
    /\ wr.pc = "sweep"
    /\ sweeps[WrSweep].pc = "done"
    /\ wr' = [WrDone(wr, [status |-> 200, success |-> TRUE])
                 EXCEPT !.result = SweepResult(sweeps[WrSweep])]
    /\ sweeps' = [sweeps EXCEPT ![WrSweep] = SweepOff]
    /\ UNCHANGED <<now, today, ENABLE_CACHE, absentSeen, nwr, storeVars, chainVars,
                   cacheReqVars, ls, batchVars, lbVars>>

\* POST /close-all: Market.find() and provider.getBlock('latest'); a throw
\* is answered with 500
WrCloseFind(o, bt) ==
    /\ wr.pc = "find"
    /\ wr' = IF o = "ok"
             THEN CloseAdvance([wr EXCEPT !.docs = FindAll(markets),
                                          !.blockTime = bt])
             ELSE WrDone(wr, [status |-> 500])
    /\ UNCHANGED <<now, today, ENABLE_CACHE, absentSeen, nwr, storeVars, chainVars,
                   cacheReqVars, listVars, batchVars, lbVars>>

\* if (currentTime < lockTime): "Check if lockTime has passed"
NotReady_Never(currentTime, lockTime) == FALSE

NotReady(currentTime, lockTime) == currentTime < lockTime

\* contract.phase() and contract.lockTime(); a market that is not trading or
\* not yet at its lockTime is passed over, a throw is caught per market
WrCloseRead(o) ==
    /\ wr.pc = "closeRead"
    /\ o = "ok" => chainCode[wr.addr]
    /\ wr' = IF o # "ok" THEN ClosePush(wr, -1, "error")
             ELSE IF chainMkt[wr.addr].phase # 0
             THEN ClosePush(wr, chainMkt[wr.addr].phase,
                            "already-closed-or-not-trading")
             ELSE IF NotReady(wr.blockTime, chainMkt[wr.addr].lockTime)
             THEN ClosePush(wr, 0, "not-ready")
             ELSE [wr EXCEPT !.pc = "closeTx"]
    /\ UNCHANGED <<now, today, ENABLE_CACHE, absentSeen, nwr, storeVars, chainVars,
                   cacheReqVars, listVars, batchVars, lbVars>>

\* const tx = await contract.close(); await tx.wait()
WrCloseTx(o) ==
    /\ wr.pc = "closeTx"
    /\ IF o = "ok"
       THEN /\ chainMkt' = [chainMkt EXCEPT ![wr.addr].phase = 1]
            /\ wr' = [wr EXCEPT !.pc = "closeSave", !.txs = @ \cup {wr.addr}]
       ELSE /\ chainMkt' = chainMkt
            /\ wr' = ClosePush(wr, -1, "error")
    /\ UNCHANGED <<now, today, ENABLE_CACHE, absentSeen, nwr, storeVars, chainCode,
                   chainClaim, chainBal, cacheReqVars, listVars, batchVars, lbVars>>

\* market.phase = 1; market.status = 'locked'; await market.save(); then, in
\* routes/admin.ts only, if (ENABLE_CACHE) await syncMarketToCache(...)
WrCloseSave ==
    /\ wr.pc = "closeSave"
    /\ LET d == wr.docs[wr.i]
           w == [wr EXCEPT !.closed = @ \cup {wr.addr}]
       IN /\ markets' = [markets EXCEPT ![wr.addr] = CloseSave(@, d.doc, d.gone)]
          /\ wr' = IF markets[wr.addr] = NoRow \/ d.gone
                   THEN ClosePush(wr, -1, "error")
                   ELSE IF wr.variant = "router" /\ ENABLE_CACHE
                   THEN [w EXCEPT !.pc = "syncCode", !.sync = "info"]
                   ELSE ClosePush(w, 1, "closed")
    /\ UNCHANGED <<now, today, ENABLE_CACHE, absentSeen, nwr, investments, balances,
                   stakeToken, chainVars, cacheReqVars, listVars, batchVars, lbVars>>

\* routes/faucet.ts: Contract.findOne({ type: 'stakeToken' }); 500 when missing
WrFaucetRegistry ==
    /\ wr.pc = "fRegistry"
    /\ wr' = IF stakeToken THEN [wr EXCEPT !.pc = "fBalance"]
             ELSE WrDone(wr, [status |-> 500])
    /\ UNCHANGED <<now, today, ENABLE_CACHE, absentSeen, nwr, storeVars, chainVars,
                   cacheReqVars, listVars, batchVars, lbVars>>

\* routes/faucet.ts: stakeToken.balanceOf(wallet.address); 500 when the call
\* throws or the faucet holds less than the amount
WrFaucetBalance(o, enough) ==
    /\ wr.pc = "fBalance"
    /\ wr' = IF o = "ok" /\ enough THEN [wr EXCEPT !.pc = "fTransfer"]
             ELSE WrDone(wr, [status |-> 500])
    /\ UNCHANGED <<now, today, ENABLE_CACHE, absentSeen, nwr, storeVars, chainVars,
                   cacheReqVars, listVars, batchVars, lbVars>>

\* stakeToken.transfer(address, amountWei) and tx.wait(); then, in
\* routes/faucet.ts only, if (ENABLE_CACHE) await syncUserBalanceToCache(...)
WrFaucetTransfer(o) ==
    /\ wr.pc = "fTransfer"
    /\ IF o = "ok"
       THEN /\ chainBal' = [chainBal EXCEPT ![wr.user] = @ + FaucetAmount]
            /\ wr' = IF wr.variant = "router" /\ ENABLE_CACHE
                     THEN [wr EXCEPT !.pc = "syncRegistry", !.sync = "balance"]
                     ELSE WrDone(wr, [status |-> 200, success |-> TRUE])
       ELSE /\ chainBal' = chainBal
            /\ wr' = WrDone(wr, [status |-> 500])
    /\ UNCHANGED <<now, today, ENABLE_CACHE, absentSeen, nwr, storeVars, chainCode, chainMkt,
                   chainClaim, cacheReqVars, listVars, batchVars, lbVars>>

-----------------------------------------------------------------------------
(* The specifications.  Requests of the families a specification leaves out  *)
(* are switched off (pc = "off") in its initial states.                      *)

RdIdle == [n |-> 0, pc |-> "idle", kind |-> "info", addr |-> "m1", user |-> "u1",
           seen |-> NoRow, tCheck |-> Undef, fetched |-> NoVal, got |-> NoVal,
           tried |-> FALSE]

\* The row of a market after its import and the sweep that ends the import:
\* synced at time 0 when the ledger answered, unsynced when it did not.
SyncedRow0 == SyncMarketUpdate(ImportedRow(0, 0), ChainMkt0, 0, TRUE)

\* The ledger and the per-user collections at the start.
InitLedger ==
    /\ chainMkt = [a \in Addrs |-> ChainMkt0]
    /\ chainClaim = [k \in Addrs \X Users |-> ChainClaim0]
    /\ chainBal = [u \in Users |-> 0]
    /\ investments = [k \in Addrs \X Users |-> NoRow]
    /\ balances = [u \in Users |-> NoRow]

InitCache ==
    /\ now = 0
    /\ today = 0
    /\ ENABLE_CACHE \in BOOLEAN
    /\ chainCode \in [Addrs -> BOOLEAN]
    /\ \E r \in {NoRow, ImportedRow(0, 0), SyncedRow0} :
          /\ r = SyncedRow0 => chainCode["m1"]
          /\ markets = [a \in Addrs |-> IF a = "m1" THEN r ELSE NoRow]
          /\ refreshLog = [a \in Addrs |->
                             IF a = "m1" /\ r = SyncedRow0
                             THEN [at |-> 0, phase |-> ChainMkt0.phase, by |-> 0,
                                   prevAt |-> Undef, prevPhase |-> 0]
                             ELSE NoVal]
    /\ chainCode["m2"] = FALSE
    /\ stakeToken \in BOOLEAN
    /\ InitLedger
    /\ leaderboard = {}
    /\ \E k \in ReadKinds : rd = [RdIdle EXCEPT !.kind = k]
    /\ resp = NoResp
    /\ ls = [k \in ListSlots |-> LsOff]
    /\ sweeps = [o \in SweepOwners |-> SweepOff]
    /\ imp = [p \in ImpProcs |-> ImpOff]
    /\ nimp = 0
    /\ lbq = [p \in LbProcs |-> LbOff]
    /\ hist = <<>>
    /\ nreq = 0
    /\ absentSeen = {}
    /\ wr = IF ENABLE_CACHE THEN WrOff ELSE WrIdle
    /\ nwr = 0

NextCache ==
    \/ \E a \in CacheAddrs \cup {"none"}, u \in Users \cup {"none"} :
          WrStart("update", a, u)
    \/ \E a \in CacheAddrs, u \in Users : RdStart(rd.kind, a, u)
    \/ RdCheck
    \/ RdRegistry
    \/ \E o \in Outcomes : RdFetch(o)
    \/ \E o \in Outcomes : RdSyncCode(o)
    \/ RdSyncRegistry
    \/ \E o \in Outcomes : RdSyncRead(o)
    \/ \E strip \in BOOLEAN : RdSyncWrite(strip)
    \/ RdRespond
    \/ \E d \in TickSteps : Tick(d)
    \/ \E a \in CacheAddrs, ph \in Phases, w \in 0 .. 1 :
          rd.kind = "info" /\ ChainSetPhase(a, ph, w)
    \/ \E a \in CacheAddrs, u \in Users :
          rd.kind = "claim" /\ ChainDeposit(a, u)
    \/ \E u \in Users : rd.kind = "balance" /\ ChainTransfer(u)
    \/ rd.kind = "balance" /\ RegisterToken

SpecCache == InitCache /\ [][NextCache]_vars

\* The steps of the runs of syncMarketPhases.
NextSweep ==
    \/ \E o \in SweepOwners : SweepFind(o)
    \/ \E o \in SweepOwners, out \in Outcomes : SweepCode(o, out)
    \/ \E o \in SweepOwners, out \in Outcomes : SweepFetch(o, out)
    \/ \E o \in SweepOwners : SweepSave(o)

\* The steps of the market-list reads.
NextListRead ==
    \/ \E k \in ListSlots : LsStart(k)
    \/ \E k \in ListSlots : LsSwept(k)
    \/ \E k \in ListSlots : LsLatest(k)
    \/ \E k \in ListSlots : LsFind(k)
    \/ \E k \in ListSlots : LsStale(k)

\* Market-list reads over a collection left by earlier imports, while the
\* clock and the ledger move.
InitList ==
    /\ now = 0
    /\ today = 0
    /\ \E v \in ListVariants :
          /\ ls = [k \in ListSlots |-> [LsIdle EXCEPT !.variant = v]]
          /\ ENABLE_CACHE \in BOOLEAN
          /\ v = "legacy" => ENABLE_CACHE
    /\ chainCode \in [Addrs -> BOOLEAN]
    /\ chainCode["m2"]
    /\ \E r2 \in {NoRow, SyncedRow0} :
          markets = [a \in Addrs |->
                       IF a = "m2" THEN r2
                       ELSE IF chainCode[a] THEN SyncedRow0
                       ELSE ImportedRow(0, 0)]
    /\ refreshLog = [a \in Addrs |-> NoVal]
    /\ stakeToken = FALSE
    /\ InitLedger
    /\ leaderboard = {}
    /\ rd = [RdIdle EXCEPT !.pc = "off"]
    /\ resp = NoResp
    /\ sweeps = [o \in SweepOwners |-> SweepOff]
    /\ imp = [p \in ImpProcs |-> ImpOff]
    /\ nimp = 0
    /\ lbq = [p \in LbProcs |-> LbOff]
    /\ hist = <<>>
    /\ nreq = 0
    /\ absentSeen = {}
    /\ wr = WrOff
    /\ nwr = 0

NextList ==
    \/ NextListRead
    \/ NextSweep
    \/ \E d \in TickSteps : Tick(d)
    \/ \E a \in CacheAddrs, ph \in Phases, w \in 0 .. 1 : ChainSetPhase(a, ph, w)

SpecList == InitList /\ [][NextList]_vars

\* The leaderboard family: an empty collection, the server not yet seeded.
InitLeaderboard ==
    /\ now = 0
    /\ today = 0
    /\ ENABLE_CACHE = TRUE
    /\ markets = [a \in Addrs |-> NoRow]
    /\ stakeToken = FALSE
    /\ chainCode = [a \in Addrs |-> TRUE]
    /\ InitLedger
    /\ leaderboard = {}
    /\ rd = [RdIdle EXCEPT !.pc = "off"]
    /\ resp = NoResp
    /\ refreshLog = [a \in Addrs |-> NoVal]
    /\ ls = [k \in ListSlots |-> LsOff]
    /\ sweeps = [o \in SweepOwners |-> SweepOff]
    /\ imp = [p \in ImpProcs |-> ImpOff]
    /\ nimp = 0
    /\ lbq = [p \in LbProcs |-> LbIdle]
    /\ hist = <<>>
    /\ nreq = 0
    /\ absentSeen = {}
    /\ wr = WrOff
    /\ nwr = 0

NextLeaderboard ==
    \/ Seed
    \/ \E p \in LbProcs, d \in SnapshotDates, e \in SnapshotInputs : SnapStart(p, d, e)
    \/ \E p \in LbProcs : SnapMax(p)
    \/ \E p \in LbProcs : RegenStart(p)
    \/ \E p \in LbProcs : RegenMax(p)
    \/ \E p \in LbProcs : RegenRead(p)
    \/ \E p \in LbProcs : LbDelete(p)
    \/ \E p \in LbProcs : LbInsert(p)

\* The market family: imports and list reads over a collection that is empty
\* or holds what an earlier import of m1 left.
InitImport ==
    /\ now = 0
    /\ today = 0
    /\ \E v \in ListVariants :
          /\ ls = [k \in ListSlots |-> [LsIdle EXCEPT !.variant = v]]
          /\ imp = [p \in ImpProcs |->
                       IF p = 1 THEN [ImpIdle EXCEPT !.variant = v] ELSE ImpOff]
          /\ ENABLE_CACHE = TRUE
          /\ \E r \in {NoRow, IF v = "legacy" THEN ImportedRow(0, 0)
                                ELSE SyncedRow0} :
                markets = [a \in Addrs |-> IF a = "m1" THEN r ELSE NoRow]
    /\ stakeToken = FALSE
    /\ chainCode = [a \in Addrs |-> a = "m1"]
    /\ InitLedger
    /\ leaderboard = {}
    /\ rd = [RdIdle EXCEPT !.pc = "off"]
    /\ resp = NoResp
    /\ refreshLog = [a \in Addrs |-> NoVal]
    /\ sweeps = [o \in SweepOwners |-> SweepOff]
    /\ nimp = 0
    /\ lbq = [p \in LbProcs |-> LbOff]
    /\ hist = <<>>
    /\ nreq = 0
    /\ absentSeen = {}
    /\ wr = WrOff
    /\ nwr = 0

\* The steps of the market imports.
ImportProgress ==
    \/ \E p \in ImpProcs : ImpClear(p)
    \/ \E p \in ImpProcs : ImpMax(p)
    \/ \E p \in ImpProcs : ImpUpsert(p)
    \/ \E p \in ImpProcs : ImpSweepStart(p)
    \/ \E p \in ImpProcs : ImpRespond(p)

NextImportSteps ==
    \/ \E p \in ImpProcs, b \in ImportBodies, c \in BOOLEAN : ImpStart(p, b, c)
    \/ ImportProgress

NextImportRace ==
    \/ \E p \in ImpProcs, b \in RaceBodies, c \in BOOLEAN : ImpStart(p, b, c)
    \/ ImportProgress

NextImport ==
    \/ NextImportSteps
    \/ NextListRead
    \/ NextSweep

\* Two market imports in flight at once, no list read.
InitImportRace ==
    /\ now = 0
    /\ today = 0
    /\ ENABLE_CACHE = TRUE
    /\ \E v \in ListVariants :
          /\ imp = [p \in ImpProcs |-> [ImpIdle EXCEPT !.variant = v]]
          /\ \E r \in {NoRow, IF v = "legacy" THEN ImportedRow(0, 0)
                                ELSE SyncedRow0} :
                markets = [a \in Addrs |-> IF a = "m1" THEN r ELSE NoRow]
    /\ stakeToken = FALSE
    /\ chainCode = [a \in Addrs |-> a = "m1"]
    /\ InitLedger
    /\ leaderboard = {}
    /\ rd = [RdIdle EXCEPT !.pc = "off"]
    /\ resp = NoResp
    /\ refreshLog = [a \in Addrs |-> NoVal]
    /\ ls = [k \in ListSlots |-> LsOff]
    /\ sweeps = [o \in SweepOwners |-> SweepOff]
    /\ nimp = 0
    /\ lbq = [p \in LbProcs |-> LbOff]
    /\ hist = <<>>
    /\ nreq = 0
    /\ absentSeen = {}
    /\ wr = WrOff
    /\ nwr = 0

SpecImportRace ==
    InitImportRace /\ [][NextImportRace \/ NextSweep \/ NextDay]_vars

\* The requests that refresh the cache on demand, one at a time, 4 seconds
\* after the stored market rows were last synced.  m2 has no contract code.
InitRefresh ==
    /\ now = 4000
    /\ today = 0
    /\ ENABLE_CACHE \in BOOLEAN
    /\ \E v \in ListVariants : wr = [WrIdle EXCEPT !.variant = v]
    /\ nwr = 0
    /\ \E r \in {NoRow, SyncedRow0} :
          markets = [a \in Addrs |-> IF a = "m1" THEN SyncedRow0 ELSE r]
    /\ stakeToken \in BOOLEAN
    /\ chainCode = [a \in Addrs |-> a = "m1"]
    /\ InitLedger
    /\ leaderboard = {}
    /\ rd = [RdIdle EXCEPT !.pc = "off"]
    /\ resp = NoResp
    /\ refreshLog = [a \in Addrs |-> NoVal]
    /\ ls = [k \in ListSlots |-> LsOff]
    /\ sweeps = [o \in SweepOwners |-> SweepOff]
    /\ imp = [p \in ImpProcs |-> ImpOff]
    /\ nimp = 0
    /\ lbq = [p \in LbProcs |-> LbOff]
    /\ hist = <<>>
    /\ nreq = 0
    /\ absentSeen = {}

NextRefresh ==
    \/ \E op \in WrOps, a \in Addrs \cup {"none"}, u \in Users \cup {"none"} :
          WrStart(op, a, u)
    \/ \E o \in Outcomes : WrSyncCode(o)
    \/ WrSyncRegistry
    \/ \E o \in Outcomes : WrSyncRead(o)
    \/ \E strip \in BOOLEAN : WrSyncWrite(strip)
    \/ WrSweepDone
    \/ \E o \in Outcomes, bt \in BlockTimes : WrCloseFind(o, bt)
    \/ \E o \in Outcomes : WrCloseRead(o)
    \/ \E o \in Outcomes : WrCloseTx(o)
    \/ WrCloseSave
    \/ WrFaucetRegistry
    \/ \E o \in Outcomes, enough \in BOOLEAN : WrFaucetBalance(o, enough)
    \/ \E o \in Outcomes : WrFaucetTransfer(o)
    \/ NextSweep
    \/ \E a \in Addrs, ph \in Phases, w \in 0 .. 1 : ChainSetPhase(a, ph, w)
    \/ \E a \in Addrs, u \in Users : ChainDeposit(a, u)

SpecRefresh == InitRefresh /\ [][NextRefresh]_vars

\* Requests of different families overlapping on one market, 31 seconds after
\* m1 and the rows of its user were last synced: POST /cache/update for m1, POST /close-all, the
\* market-list read of routes/markets.ts with the sweep it starts, and an
\* import with clearExisting.  The ledger calls of the two write requests are
\* all answered here; their failures are in SpecRefresh.
InitOverlap ==
    /\ now = 31000
    /\ today = 0
    /\ ENABLE_CACHE = TRUE
    /\ wr = WrIdle
    /\ nwr = 0
    /\ markets = [a \in Addrs |-> IF a = "m1" THEN SyncedRow0 ELSE NoRow]
    /\ stakeToken = TRUE
    /\ chainCode = [a \in Addrs |-> a = "m1"]
    /\ chainMkt = [a \in Addrs |-> ChainMkt0]
    /\ chainClaim = [k \in Addrs \X Users |-> ChainClaim0]
    /\ chainBal = [u \in Users |-> 0]
    /\ investments = [k \in Addrs \X Users |->
                         IF k[1] = "m1" THEN SyncInvestmentUpdate(NoRow, ChainClaim0, 0)
                         ELSE NoRow]
    /\ balances = [u \in Users |-> SyncBalanceUpdate(NoRow, [balance |-> 0], 0)]
    /\ leaderboard = {}
    /\ rd = [RdIdle EXCEPT !.pc = "off"]
    /\ resp = NoResp
    /\ refreshLog = [a \in Addrs |-> NoVal]
    /\ ls = [k \in ListSlots |-> LsIdle]
    /\ sweeps = [o \in SweepOwners |-> SweepOff]
    /\ imp = [p \in ImpProcs |->
                 IF p = 1 THEN [ImpIdle EXCEPT !.variant = "router"] ELSE ImpOff]
    /\ nimp = 0
    /\ lbq = [p \in LbProcs |-> LbOff]
    /\ hist = <<>>
    /\ nreq = 0
    /\ absentSeen = {}

\* The body of the import that overlaps the other requests: it is sent with
\* clearExisting and carries a market other than the stored one.
ClearingBody == [isArray |-> TRUE, list |-> << Entry("m2", TRUE, 100) >>]

\* The ledger moves only while no sweep is running: every sweep starts after
\* the ledger value has stopped changing and runs over a settled ledger.  A
\* cache-update request may be in flight across the change.
LedgerSettles(a, ph, w) ==
    /\ \A o \in SweepOwners : sweeps[o].pc \in {"off", "done"}
    /\ \A k \in ListSlots : ls[k].pc \in {"off", "idle", "done"}
    /\ ChainSetPhase(a, ph, w)

NextOverlap ==
    \/ \E op \in {"update", "closeAll"} :
          WrStart(op, IF op = "update" THEN "m1" ELSE "none", "none")
    \/ WrSyncCode("ok")
    \/ WrSyncRead("ok")
    \/ \E strip \in BOOLEAN : WrSyncWrite(strip)
    \/ \E bt \in BlockTimes : WrCloseFind("ok", bt)
    \/ WrCloseRead("ok")
    \/ WrCloseTx("ok")
    \/ WrCloseSave
    \/ ImpStart(1, ClearingBody, TRUE)
    \/ ImpClear(1)
    \/ ImpUpsert(1)
    \/ ImpSweepStart(1)
    \/ ImpRespond(1)
    \/ \E k \in ListSlots : LsStart(k)
    \/ \E k \in ListSlots : LsLatest(k)
    \/ \E k \in ListSlots : LsFind(k)
    \/ \E k \in ListSlots : LsStale(k)
    \/ NextSweep
    \/ \E a \in CacheAddrs, ph \in 0 .. 1 : LedgerSettles(a, ph, 0)

SpecOverlap == InitOverlap /\ [][NextOverlap]_vars

\* A stored market imported again without clearExisting, next to the requests
\* that move its phase: POST /close-all, POST /cache/update for m1 and the
\* sweep the import starts.  The body carries the market as the deployment
\* wrote it, with neither phase nor status.
ReimportBody == [isArray |-> TRUE, list |-> << Entry("m1", TRUE, 100) >>]

InitReimport ==
    /\ now = 31000
    /\ today = 0
    /\ ENABLE_CACHE = TRUE
    /\ \E v \in ListVariants :
          /\ wr = [WrIdle EXCEPT !.variant = v]
          /\ imp = [p \in ImpProcs |->
                       IF p = 1 THEN [ImpIdle EXCEPT !.variant = v] ELSE ImpOff]
    /\ nwr = 0
    /\ markets = [a \in Addrs |-> IF a = "m1" THEN SyncedRow0 ELSE NoRow]
    /\ stakeToken = FALSE
    /\ chainCode = [a \in Addrs |-> a = "m1"]
    /\ InitLedger
    /\ leaderboard = {}
    /\ rd = [RdIdle EXCEPT !.pc = "off"]
    /\ resp = NoResp
    /\ refreshLog = [a \in Addrs |-> NoVal]
    /\ ls = [k \in ListSlots |-> LsOff]
    /\ sweeps = [o \in SweepOwners |-> SweepOff]
    /\ nimp = 0
    /\ lbq = [p \in LbProcs |-> LbOff]
    /\ hist = <<>>
    /\ nreq = 0
    /\ absentSeen = {}

NextReimport ==
    \/ \E op \in {"update", "closeAll"} :
          WrStart(op, IF op = "update" THEN "m1" ELSE "none", "none")
    \/ WrSyncCode("ok")
    \/ \E o \in Outcomes : WrSyncRead(o)
    \/ \E strip \in BOOLEAN : WrSyncWrite(strip)
    \/ \E bt \in BlockTimes : WrCloseFind("ok", bt)
    \/ WrCloseRead("ok")
    \/ WrCloseTx("ok")
    \/ WrCloseSave
    \/ ImpStart(1, ReimportBody, FALSE)
    \/ ImpMax(1)
    \/ ImpUpsert(1)
    \/ ImpSweepStart(1)
    \/ ImpRespond(1)
    \/ NextSweep
    \/ \E ph \in Phases : LedgerSettles("m1", ph, 0)

SpecReimport == InitReimport /\ [][NextReimport]_vars

\* The two versioned collections, one family in a behaviour.
SpecVersioned ==
    /\ InitLeaderboard \/ InitImport
    /\ [][NextLeaderboard \/ NextImport \/ NextDay]_vars

-----------------------------------------------------------------------------
(* Properties of the cached reads *)

\* C1: with caching enabled, a cached read answers cached=true if and only if
\* the row its findOne returned exists, has a lastSyncedAt, and is less than
\* 30 seconds old when the age is computed; otherwise (also at an age of
\* exactly 30 seconds) it takes the ledger path: it calls the ledger, or, for
\* the balance read, answers 404 because no stake token is registered.
C1_CachedIffFresh ==
    (rd.pc = "done" /\ ENABLE_CACHE) =>
        /\ resp.cached <=>
              /\ rd.seen # NoRow
              /\ rd.seen.lastSyncedAt # Undef
              /\ rd.tCheck - rd.seen.lastSyncedAt < 30000
        /\ ~resp.cached =>
              \/ rd.tried
              \/ rd.kind = "balance" /\ resp.status = 404

\* C1 witness: a read finds a row aged exactly 30 seconds, does not answer
\* from the cache and calls the ledger.
C1_Witness ==
    /\ rd.pc = "done"
    /\ ENABLE_CACHE
    /\ rd.seen # NoRow
    /\ rd.seen.lastSyncedAt # Undef
    /\ rd.tCheck - rd.seen.lastSyncedAt = 30000
    /\ ~resp.cached
    /\ rd.tried

\* C2: a market-info read that finds the row stale and gets an answer from
\* the ledger reports cached=false and the phase the ledger reported to it;
\* a read that finds the row refreshed by an earlier request less than 30
\* seconds before reports cached=true with the phase that refresh stored.
C2_StaleReadThenCachedRead ==
    (ENABLE_CACHE /\ rd.kind = "info") =>
        /\ ( /\ rd.pc = "done"
             /\ resp.status = 200
             /\ rd.seen # NoRow
             /\ rd.seen.lastSyncedAt # Undef
             /\ rd.tCheck - rd.seen.lastSyncedAt >= 30000 )
           => (~resp.cached /\ resp.phase = rd.fetched.phase)
        /\ LET lg == refreshLog[rd.addr] IN
           ( /\ rd.pc \notin {"idle", "check"}
             /\ lg # NoVal
             /\ lg.by # rd.n
             /\ rd.tCheck - lg.at < 30000 )
           => (rd.pc = "done" /\ resp.cached /\ resp.phase = lg.phase)

\* C2 witness: the row cached at t=0 with phase trading was refreshed at
\* t=31s by the first read, which stored phase locked; the second read, at
\* t=35s, answers cached=true with phase locked.
C2_Witness ==
    /\ ENABLE_CACHE
    /\ rd.kind = "info"
    /\ rd.pc = "done"
    /\ rd.n = 2
    /\ rd.tCheck = 35000
    /\ refreshLog[rd.addr] = [at |-> 31000, phase |-> 1, by |-> 1,
                              prevAt |-> 0, prevPhase |-> 0]
    /\ resp.cached
    /\ resp.phase = 1

\* C3: a cached read that found a synced row for its key answers with that
\* row's values, never with an error, when it does not get a value from the
\* ledger (the fetch fails, or no stake token is registered).
C3_StaleValueShieldsFailure ==
    ( /\ rd.pc = "done"
      /\ ENABLE_CACHE
      /\ rd.seen # NoRow
      /\ rd.seen.lastSyncedAt # Undef
      /\ rd.fetched = NoVal ) =>
        /\ resp.status = 200
        /\ [resp EXCEPT !.cached = TRUE] = CachedBody(rd.kind, rd.seen)

-----------------------------------------------------------------------------
(* Properties of the leaderboard groups *)

GroupKeys(rows) == { <<r.date, r.index>> : r \in rows }

\* C5: a snapshot submitted again (same date, same entries) after its first
\* submission was stored leaves exactly one stored copy of the entry set for
\* that date.
C5_IdenticalSnapshotStoredOnce ==
    \A s1, s2 \in DOMAIN hist :
        ( /\ s1 <= hist[s2].after
          /\ hist[s1].kind = "snapshot"
          /\ hist[s2].kind = "snapshot"
          /\ hist[s1].date = hist[s2].date
          /\ hist[s1].entries = hist[s2].entries )
        => Cardinality({ r \in leaderboard :
                           r.date = hist[s1].date /\ r.sub \in {s1, s2} })
              = Len(hist[s1].entries)

\* C6: in every stored (date, index) group of N rows each rank 1..N is the
\* rank of exactly one row.
C6_RanksArePermutation ==
    \A k \in GroupKeys(leaderboard) :
        LET g == Group(leaderboard, k[1], k[2]) IN
        \A n \in 1 .. Cardinality(g) : Cardinality({ r \in g : r.rank = n }) = 1

\* C7: the rows stored under one (date, index) pair are exactly the entries
\* of one single submission.
C7_GroupIsOneSubmission ==
    \A k \in GroupKeys(leaderboard) :
        \E s \in DOMAIN hist :
            Group(leaderboard, k[1], k[2]) = Documents(hist[s].entries, k[1], k[2], s)


-----------------------------------------------------------------------------
(* Properties of the market-list read *)

\* C4, as stated for both handlers: a market-list read never waits for a
\* sweep of its own, and a sweep it triggered makes no ledger call before
\* the response is sent.
C4_ListReadNeverAwaitsSweep ==
    \A k \in ListSlots :
        /\ ls[k].pc # "sweep"
        /\ sweeps[LsSweep(k)].calls > 0 => ls[k].responded

\* C4, amended: the read of routes/markets.ts has sent its response before
\* the sweep it triggers is started, hence before any ledger call of that
\* sweep, and never awaits it; the read of index.ts awaits its sweep first
\* and answers only once that sweep has ended.
C4_RouterAnswersBeforeSweep ==
    \A k \in ListSlots :
        /\ ls[k].variant = "router" =>
              /\ ls[k].pc # "sweep"
              /\ sweeps[LsSweep(k)].pc # "off" => ls[k].responded
              /\ sweeps[LsSweep(k)].calls > 0 => ls[k].responded
        /\ ls[k].variant = "legacy" =>
              /\ ls[k].pc \notin {"idle", "sweep"} => sweeps[LsSweep(k)].pc = "done"
              /\ ls[k].responded => sweeps[LsSweep(k)].pc = "done"

\* A router read has answered and is over while its sweep is calling the
\* ledger.
C4_Witness ==
    \E k \in ListSlots :
        /\ ls[k].variant = "router"
        /\ ls[k].pc = "done"
        /\ ls[k].responded
        /\ sweeps[LsSweep(k)].pc = "fetch"
        /\ sweeps[LsSweep(k)].calls > 0

-----------------------------------------------------------------------------
(* Properties of the deployment batches *)

\* b is the greatest (deploymentDate, deploymentIndex) pair among the stored
\* rows, date first; NoVal when nothing is stored.
IsGreatestBatch(b, rows) ==
    IF Stored(rows) = {} THEN b = NoVal
    ELSE IF b = NoVal THEN FALSE
    ELSE /\ \E r \in Stored(rows) : BatchOf(r.doc) = b
         /\ \A r \in Stored(rows) :
               \/ r.doc.deploymentDate < b.deploymentDate
               \/ /\ r.doc.deploymentDate = b.deploymentDate
                  /\ r.doc.deploymentIndex <= b.deploymentIndex

\* n is one more than every index of S and one more than some index of S,
\* or 0 when S is empty.
IsNextIndex(n, S) ==
    IF S = {} THEN n = 0 ELSE (n - 1) \in S /\ \A i \in S : i < n

\* C8: the latest deployment a market-list read computes is the
\* lexicographically greatest (deploymentDate, deploymentIndex) pair among
\* the rows stored at that moment, date compared first and index second, and
\* is absent when no row is stored.
C8_CurrentBatchIsGreatest ==
    [][\A k \in ListSlots :
          (ls[k].pc = "latest" /\ ls'[k].pc = "find")
              => IsGreatestBatch(ls'[k].latest, markets)]_vars

\* Rows (0,1) and (1,0) are stored and the read has computed (1,0).
C8_Witness ==
    \E k \in ListSlots :
        /\ ls[k].pc = "find"
        /\ ls[k].latest = [deploymentDate |-> 1, deploymentIndex |-> 0]
        /\ { BatchOf(r.doc) : r \in Stored(markets) } =
              { [deploymentDate |-> 0, deploymentIndex |-> 1],
                [deploymentDate |-> 1, deploymentIndex |-> 0] }

\* C9: the index computed by each market import without clearExisting and by
\* each leaderboard snapshot is 1 + the greatest index among the rows stored
\* with that date when the query runs, and 0 when the date has no row.
C9_NextIndexIsMaxPlusOne ==
    [][/\ \A p \in ImpProcs :
             (imp[p].pc = "max" /\ imp'[p].pc = "upsert")
                 => IsNextIndex(imp'[p].deploymentIndex,
                                { r.doc.deploymentIndex :
                                     r \in { x \in Stored(markets) :
                                               x.doc.deploymentDate = imp[p].date } })
       /\ \A p \in LbProcs :
             (lbq[p].pc = "max" /\ lbq[p].kind = "snapshot" /\ lbq'[p].pc = "delete")
                 => IsNextIndex(lbq'[p].nextIndex,
                                { r.index : r \in { x \in leaderboard :
                                                      x.date = lbq[p].date } })]_vars

\* Rows (d,0) and (d,1) are stored and an import on day d has computed 2.
C9_Witness ==
    \E p \in ImpProcs :
        /\ imp[p].pc = "upsert"
        /\ ~imp[p].clear
        /\ imp[p].deploymentIndex = 2
        /\ { r.doc.deploymentIndex :
                r \in { x \in Stored(markets) : x.doc.deploymentDate = imp[p].date } }
              = {0, 1}

\* C10: the rows a market-list read returns are exactly the stored rows whose
\* (deploymentDate, deploymentIndex) equals the latest deployment the read
\* computed (all stored rows when it computed none), each address at most
\* once.
C10_LatestOnlyReturnsCurrentBatch ==
    [][\A k \in ListSlots :
          (ls[k].pc = "find" /\ ls'[k].pc # "find") =>
              /\ \A a \in Addrs :
                    (\E r \in ls'[k].rows : r.addr = a) <=>
                        /\ markets[a] # NoRow
                        /\ ls[k].latest # NoVal => BatchOf(markets[a]) = ls[k].latest
              /\ \A r \in ls'[k].rows : r.doc = markets[r.addr]
              /\ \A r1, r2 \in ls'[k].rows : r1.addr = r2.addr => r1 = r2]_vars

\* The read returned the row of batch (0,1) alone while a row of the older
\* batch (0,0) is stored.
C10_Witness ==
    \E k \in ListSlots :
        /\ ls[k].responded
        /\ markets["m1"] # NoRow
        /\ markets["m2"] # NoRow
        /\ BatchOf(markets["m1"]) = [deploymentDate |-> 0, deploymentIndex |-> 0]
        /\ BatchOf(markets["m2"]) = [deploymentDate |-> 0, deploymentIndex |-> 1]
        /\ ls[k].rows = { [addr |-> "m2", doc |-> markets["m2"]] }

\* The addresses whose stored row belongs to batch b.
RowsOfBatch(rows, b) == { r.addr : r \in { x \in Stored(rows) : BatchOf(x.doc) = b } }

\* The batch an import in flight writes its rows under.
ImportBatch(p) == [deploymentDate |-> imp[p].date,
                   deploymentIndex |-> imp[p].deploymentIndex]

\* C11: a turn of the upsert loop of an import without clearExisting deletes
\* no market row and leaves the set of rows of every batch other than the
\* import's own as it was.
C11_OlderBatchesRetained ==
    [][\A p \in ImpProcs :
          (imp[p].pc = "upsert" /\ ~imp[p].clear /\ imp'[p].i = imp[p].i + 1) =>
              /\ \A a \in Addrs : markets[a] # NoRow => markets'[a] # NoRow
              /\ \A r \in Stored(markets) :
                    BatchOf(r.doc) # ImportBatch(p) =>
                        RowsOfBatch(markets', BatchOf(r.doc))
                            = RowsOfBatch(markets, BatchOf(r.doc))]_vars

-----------------------------------------------------------------------------
(* Properties of concurrent imports *)

\* Import p has run its max-index query and written no row yet.
HasIndexOnly(p) ==
    imp[p].pc = "upsert" /\ ~imp[p].clear /\ imp[p].upserted = 0

\* Two imports for one date that have both run the max-index query, while no
\* row of that date has been stored at or above either result, hold the same
\* deploymentIndex.
SameIndexComputed ==
    \A p, q \in ImpProcs :
        ( /\ p # q
          /\ HasIndexOnly(p)
          /\ HasIndexOnly(q)
          /\ imp[p].date = imp[q].date
          /\ \A r \in Stored(markets) :
                r.doc.deploymentDate = imp[p].date =>
                    /\ r.doc.deploymentIndex < imp[p].deploymentIndex
                    /\ r.doc.deploymentIndex < imp[q].deploymentIndex )
        => imp[p].deploymentIndex = imp[q].deploymentIndex

\* C12: nothing keeps the max-index queries of two concurrent imports for one
\* date apart: both compute the same deploymentIndex, and every row an import
\* writes is stored under the (date, index) batch that import computed, so
\* the two imports write under one batch.
C12_ConcurrentImportsCollide ==
    [][/\ SameIndexComputed'
       /\ \A p \in ImpProcs :
             (imp[p].pc = "upsert" /\ imp'[p].upserted = imp[p].upserted + 1) =>
                 LET a == imp[p].body[imp[p].i].marketAddress IN
                 /\ markets'[a] # NoRow
                 /\ BatchOf(markets'[a]) = ImportBatch(p)]_vars

\* Two imports of day 0 in flight hold the same batch, and each has written
\* its row under it.
C12_Witness ==
    /\ imp[1].pc = "upsert" /\ imp[2].pc = "upsert"
    /\ ~imp[1].clear /\ ~imp[2].clear
    /\ imp[1].upserted = 1 /\ imp[2].upserted = 1
    /\ ImportBatch(1) = ImportBatch(2)
    /\ markets["m1"] # NoRow
    /\ BatchOf(markets["m1"]) = ImportBatch(1)

\* The fields of a market row that the import writes and no sweep touches.
ImportFields(row) ==
    [lockTime |-> row.lockTime, resolveTime |-> row.resolveTime,
     deploymentDate |-> row.deploymentDate,
     deploymentIndex |-> row.deploymentIndex]

\* The import fields a row has after import p wrote body element e.
WrittenBy(p, e) ==
    [lockTime |-> e.lockTime, resolveTime |-> 200,
     deploymentDate |-> imp[p].date, deploymentIndex |-> imp[p].deploymentIndex]

\* Import p writes a row in this step.
ImportWrites(p) ==
    imp[p].pc = "upsert" /\ imp'[p].upserted = imp[p].upserted + 1

\* C13: the collection holds one row per contract address, and over any
\* interleaving of imports that row carries the field values and the batch of
\* the last import that wrote it: every write of an import leaves the row
\* with that import's values, and the values of a stored row change, or a row
\* appears, only in such a write.
C13_RowCarriesLastImport ==
    [][/\ \A p \in ImpProcs :
             ImportWrites(p) =>
                 LET e == imp[p].body[imp[p].i] IN
                 /\ markets'[e.marketAddress] # NoRow
                 /\ ImportFields(markets'[e.marketAddress]) = WrittenBy(p, e)
       /\ \A a \in Addrs :
             ( /\ markets'[a] # NoRow
               /\ \/ markets[a] = NoRow
                  \/ ImportFields(markets'[a]) # ImportFields(markets[a]) )
             => \E p \in ImpProcs :
                   /\ ImportWrites(p)
                   /\ imp[p].body[imp[p].i].marketAddress = a]_vars

\* Two imports that collided on one batch have both written m1 with different
\* lockTime values; the row carries the values of the one that wrote last.
C13_Witness ==
    /\ imp[1].pc = "upsert" /\ imp[2].pc = "upsert"
    /\ imp[1].upserted = 1 /\ imp[2].upserted = 1
    /\ ~imp[1].clear /\ ~imp[2].clear
    /\ ImportBatch(1) = ImportBatch(2)
    /\ imp[1].body[1].lockTime = 100
    /\ imp[2].body[1].lockTime = 150
    /\ markets["m1"] # NoRow
    /\ ImportFields(markets["m1"]) = WrittenBy(2, imp[2].body[1])

\* Batch b is not below batch a, date first.
BatchAtLeast(b, a) ==
    \/ b.deploymentDate > a.deploymentDate
    \/ /\ b.deploymentDate = a.deploymentDate
       /\ b.deploymentIndex >= a.deploymentIndex

\* No import in flight or answered was sent with clearExisting.
NoClearingImport ==
    \A p \in ImpProcs :
        /\ ~imp[p].clear
        /\ (imp[p].pc = "done" /\ imp[p].resp # NoVal /\ imp[p].resp.status = 200)
               => ~imp[p].resp.cleared

\* C14: while the imports are without clearExisting, the latest deployment
\* (the greatest (date, index) among the stored rows) never decreases from
\* one state to the next.
C14_CurrentBatchNeverDecreases ==
    [][(NoClearingImport /\ NoClearingImport' /\ LatestDeployment(markets) # NoVal)
          => /\ LatestDeployment(markets') # NoVal
             /\ BatchAtLeast(LatestDeployment(markets'), LatestDeployment(markets))]_vars

-----------------------------------------------------------------------------
(* Properties of the import with clearExisting *)

\* The addresses of the body elements the upsert loop does not skip.
ImportedAddrs(list) ==
    { list[j].marketAddress : j \in { k \in DOMAIN list : list[k].hasId } }

\* Import p answers in this step.
ImportAnswers(p) == imp[p].pc = "sweep" /\ imp'[p].pc = "done"

\* C15: when an import with clearExisting answers, no other import having
\* run beside it, the stored market rows are exactly the ones of its body,
\* each under batch (its deployment date, 0), and the response reports
\* deploymentIndex 0.
C15_ClearRestartsAtZero ==
    [][\A p \in ImpProcs :
          (ImportAnswers(p) /\ imp[p].clear) =>
              /\ { r.addr : r \in Stored(markets') } = ImportedAddrs(imp[p].body)
              /\ \A r \in Stored(markets') :
                    BatchOf(r.doc) = [deploymentDate |-> imp[p].date,
                                      deploymentIndex |-> 0]
              /\ imp'[p].resp.status = 200
              /\ imp'[p].resp.cleared
              /\ imp'[p].resp.deploymentDate = imp[p].date
              /\ imp'[p].resp.deploymentIndex = 0]_vars

\* The second import of the behaviour, sent on day 1 with clearExisting, has
\* answered: m2 is the only row and it is under batch (1, 0).
C15_Witness ==
    /\ nimp = 2
    /\ imp[1].pc = "done"
    /\ imp[1].resp # NoVal
    /\ imp[1].resp.status = 200
    /\ imp[1].resp.cleared
    /\ imp[1].resp.deploymentDate = 1
    /\ imp[1].resp.deploymentIndex = 0
    /\ markets["m1"] = NoRow
    /\ markets["m2"] # NoRow
    /\ BatchOf(markets["m2"]) = [deploymentDate |-> 1, deploymentIndex |-> 0]

-----------------------------------------------------------------------------
(* Properties of the refreshes *)

\* The request has not been answered with an error.
NotRaised(w) == w.resp = NoVal \/ w.resp.status = 200

\* The market the run of syncMarketPhases is visiting.
Visiting(s) == s.docs[s.i].addr

\* The run has gone on to the next document, or has ended after the last.
MovedOn(s, t) ==
    \/ s.i < Len(s.docs) /\ t.pc = "code" /\ t.i = s.i + 1
    \/ s.i = Len(s.docs) /\ t.pc = "done"

\* C16: when the address has no contract code, the getCode step of
\* syncMarketToCache and of syncUserInvestmentToCache returns to the handler,
\* which goes on without an error answer, and the getCode step of a sweep
\* iteration goes on to the next market; no ledger read and no write follows,
\* and the market row and the investment row are left as they were.
C16_AbsentIsSkipped ==
    [][/\ (wr.pc = "syncCode" /\ ~chainCode[wr.addr] /\ wr' # wr) =>
             /\ wr'.pc \notin {"syncRead", "syncWrite"}
             /\ wr'.pc = "syncCode" => wr'.stage = wr.stage + 1
             /\ NotRaised(wr')
             /\ wr'.refreshed = wr.refreshed
             /\ markets'[wr.addr] = markets[wr.addr]
             /\ wr.user # "none" =>
                   investments'[<<wr.addr, wr.user>>] = investments[<<wr.addr, wr.user>>]
       /\ \A o \in SweepOwners :
             ( /\ sweeps[o].pc = "code"
               /\ ~chainCode[Visiting(sweeps[o])]
               /\ sweeps'[o] # sweeps[o] ) =>
                 /\ MovedOn(sweeps[o], sweeps'[o])
                 /\ markets'[Visiting(sweeps[o])] = markets[Visiting(sweeps[o])]]_vars

\* POST /cache/update for m2, which has no code, and u1: both sync calls have
\* returned and the handler is in its third; nothing was written.
C16_Witness ==
    /\ wr.op = "update" /\ wr.addr = "m2" /\ wr.user = "u1"
    /\ wr.stage = 3
    /\ wr.refreshed = {}
    /\ ~chainCode["m2"]
    /\ markets["m2"] = SyncedRow0
    /\ investments[<<"m2", "u1">>] = NoRow

\* C17: a run of syncMarketPhases visits every document its find returned,
\* one after another: whatever the outcome of a step on one market (no code,
\* a rejected call, any other throw), the run stays on that market, goes on
\* to the next one, or ends after the last; and POST /sync-phases then
\* answers 200.
C17_SweepVisitsAll ==
    [][/\ \A o \in SweepOwners :
             LET s == sweeps[o]
                 t == sweeps'[o]
             IN /\ (s.pc = "find" /\ t # s) =>
                      IF FindAll(markets) = <<>> THEN t.pc = "done"
                      ELSE t.pc = "code" /\ t.i = 1 /\ t.docs = FindAll(markets)
                /\ (s.pc \in {"code", "fetch", "save"} /\ t # s) =>
                      \/ /\ t.i = s.i
                         /\ t.docs = s.docs
                         /\ \/ s.pc = "code" /\ t.pc = "fetch"
                            \/ s.pc = "fetch" /\ t.pc = "save"
                      \/ MovedOn(s, t)
       /\ (wr.pc = "sweep" /\ wr' # wr) =>
             /\ sweeps[WrSweep].pc = "done"
             /\ wr'.pc = "done"
             /\ wr'.resp.status = 200]_vars

\* The run of POST /sync-phases is at the second of two markets after its
\* ledger read for the first one failed: two calls made, m1 not written.
C17_Witness ==
    /\ wr.pc = "sweep"
    /\ sweeps[WrSweep].variant = "sync"
    /\ sweeps[WrSweep].pc = "code"
    /\ sweeps[WrSweep].i = 2
    /\ Len(sweeps[WrSweep].docs) = 2
    /\ sweeps[WrSweep].calls = 2
    /\ chainCode["m1"]
    /\ markets["m1"] = sweeps[WrSweep].docs[1].doc

\* The document a sync function in progress is about.
SyncRow(w, mk, inv, bal) ==
    CASE w.sync = "info" -> mk[w.addr]
      [] w.sync = "claim" -> inv[<<w.addr, w.user>>]
      [] w.sync = "balance" -> bal[w.user]

\* C18: when a ledger call of syncMarketToCache, of syncUserInvestmentToCache
\* or of a sweep iteration throws, the function (the iteration) ends without
\* a write, and the row of its key is in every field, lastSyncedAt included,
\* what it was before.
C18_FailedReadKeepsRow ==
    [][/\ ( /\ wr' # wr
            /\ \/ wr.pc = "syncRead" /\ wr'.pc # "syncWrite"
               \/ wr.pc = "syncCode" /\ chainCode[wr.addr] /\ wr'.pc # "syncRead" )
          => /\ SyncRow(wr, markets', investments', balances')
                   = SyncRow(wr, markets, investments, balances)
             /\ wr'.refreshed = wr.refreshed
             /\ NotRaised(wr')
       /\ \A o \in SweepOwners :
             LET s == sweeps[o]
                 t == sweeps'[o]
             IN ( /\ t # s
                  /\ \/ s.pc = "fetch" /\ t.pc # "save"
                     \/ s.pc = "code" /\ chainCode[Visiting(s)] /\ t.pc # "fetch" )
                => /\ markets'[Visiting(s)] = markets[Visiting(s)]
                   /\ MovedOn(s, t)]_vars

\* POST /cache/update for m1, which has code and a row synced at 0, and u1:
\* the market sync and the claim sync have both returned 4 seconds later
\* without a write, after two ledger calls each (getCode and the read that
\* threw); the rows are as before.
C18_Witness ==
    /\ wr.op = "update" /\ wr.addr = "m1" /\ wr.user = "u1"
    /\ wr.stage = 3
    /\ wr.calls = 4
    /\ wr.refreshed = {}
    /\ chainCode["m1"]
    /\ now = 4000
    /\ markets["m1"] = SyncedRow0
    /\ markets["m1"].lastSyncedAt = 0
    /\ investments[<<"m1", "u1">>] = NoRow

\* C19: when POST /sync-phases has answered, the sweep it awaited has
\* returned a tally whose ok, absent, transient and unexpected counts add up
\* to the number of markets visited.
C19_SweepReturnsTally ==
    (wr.pc = "done" /\ wr.op = "syncPhases") =>
        /\ wr.result # NoVal
        /\ wr.result.ok + wr.result.absent + wr.result.transient
              + wr.result.unexpected = wr.result.visited

\* C20: with the cache enabled, when POST /close-all has answered, the row
\* of every market it closed has been refreshed from the ledger by the
\* request; and when the faucet of routes/faucet.ts has answered with
\* success, the balance row of the recipient has been refreshed by it.
C20_RefreshedBeforeResponse ==
    (ENABLE_CACHE /\ wr.pc = "done" /\ wr.resp.status = 200) =>
        /\ wr.op = "closeAll" =>
              \A a \in wr.closed : <<"info", a, "none">> \in wr.refreshed
        /\ (wr.op = "faucet" /\ wr.variant = "router") =>
              <<"balance", "none", wr.user>> \in wr.refreshed

\* C21: when POST /cache/update has answered, every key its updated list
\* names is a key whose cache row the request refreshed.
C21_UpdatedMeansRefreshed ==
    (wr.pc = "done" /\ wr.op = "update" /\ ~wr.resp.skipped) =>
        wr.resp.updated \subseteq wr.refreshed

-----------------------------------------------------------------------------
(* Further properties of the market-list read *)

\* The read is served with caching on: routes/markets.ts with ENABLE_CACHE;
\* index.ts has no cache switch and no freshness test.
ServedWithCaching(k) == ls[k].variant = "router" /\ ENABLE_CACHE

\* C22: a market-list read served without caching has sent its response only
\* after a sweep of its own has ended; one served with caching has its sweep,
\* if any, started only after the response was sent.
C22_SweepBeforeAnswerIffDisabled ==
    \A k \in ListSlots :
        /\ (~ServedWithCaching(k) /\ ls[k].responded) =>
              sweeps[LsSweep(k)].pc = "done"
        /\ (ServedWithCaching(k) /\ sweeps[LsSweep(k)].pc \notin {"off", "done"}) =>
              ls[k].responded

-----------------------------------------------------------------------------
(* Properties of overlapping refreshes *)

\* The row carries the ledger values a sweep refreshes.
CarriesLedger(row, f) ==
    /\ row.phase = f.phase
    /\ row.status = phaseToStatus(f.phase)
    /\ row.poolA = f.poolA
    /\ row.poolB = f.poolB

\* C23: a refresh of a market that starts once the ledger value has stopped
\* changing and succeeds makes the cached value equal to the ledger value:
\* when a sweep of the market-list read saves a market that is still stored,
\* and when syncMarketToCache writes a value that is the ledger's current
\* one, the row then carries the ledger values.
C23_RefreshAfterSettlingCorrects ==
    [][/\ \A k \in ListSlots :
             LET s == sweeps[LsSweep(k)] IN
             (s.pc = "save" /\ sweeps'[LsSweep(k)] # s /\ markets'[Visiting(s)] # NoRow) =>
                 CarriesLedger(markets'[Visiting(s)], chainMkt[Visiting(s)])
       /\ ( /\ wr.pc = "syncWrite" /\ wr.sync = "info" /\ wr' # wr
            /\ wr.got = chainMkt[wr.addr]
            /\ markets'[wr.addr] # NoRow ) =>
             CarriesLedger(markets'[wr.addr], chainMkt[wr.addr])]_vars

\* Every ledger-derived field of the row has the value of the fetch f.
FullyReplaced(row, f) ==
    /\ row.phase = f.phase
    /\ row.status = phaseToStatus(f.phase)
    /\ row.poolA = f.poolA
    /\ row.poolB = f.poolB
    /\ row.winner = WinnerField(f.winner)
    /\ row.lockTime = f.lockTime
    /\ row.resolveTime = f.resolveTime

\* C24: every write that sets lastSyncedAt on a market row (the save of a
\* sweep of part_000, the findOneAndUpdate of syncMarketToCache) leaves
\* phase, status, poolA, poolB, winner, lockTime and resolveTime all at the
\* values of the fetch it follows.
C24_SyncedWriteReplacesAll ==
    [][/\ \A o \in SweepOwners :
             LET s == sweeps[o] IN
             ( /\ s.pc = "save" /\ sweeps'[o] # s /\ s.variant = "sync"
               /\ ~s.docs[s.i].gone /\ markets'[Visiting(s)] # NoRow ) =>
                 FullyReplaced(markets'[Visiting(s)], s.got)
       /\ ( /\ wr.pc = "syncWrite" /\ wr.sync = "info" /\ wr' # wr
            /\ markets'[wr.addr] # NoRow ) =>
             FullyReplaced(markets'[wr.addr], wr.got)]_vars

\* A sweep has found a stored market without contract code, and every other
\* stored market is fresh.
OnlyAbsentUnsynced ==
    /\ \E a \in absentSeen : markets[a] # NoRow
    /\ \A a \in Addrs \ absentSeen :
          markets[a] # NoRow => ~IsStaleRow(markets[a], now)

\* C25: once a sweep has found a market's address to have no ledger
\* presence, a market-list read issued while every other market is fresh
\* starts no sweep.
C25_AbsentNotRetried ==
    [][\A k \in ListSlots :
          ( /\ ls[k].pc = "stale" /\ ls'[k].pc = "done"
            /\ OnlyAbsentUnsynced ) =>
              sweeps'[LsSweep(k)] = sweeps[LsSweep(k)]]_vars

\* C26: after a successful refresh of a market (the findOneAndUpdate of
\* syncMarketToCache, the save of a sweep) the stored phase is the phase that
\* refresh fetched, whatever the phase stored before, earlier or later.
C26_RefreshStoresFetchedPhase ==
    [][/\ \A o \in SweepOwners :
             LET s == sweeps[o] IN
             ( /\ s.pc = "save" /\ sweeps'[o] # s
               /\ ~s.docs[s.i].gone /\ markets'[Visiting(s)] # NoRow ) =>
                 markets'[Visiting(s)].phase = s.got.phase
       /\ ( /\ wr.pc = "syncWrite" /\ wr.sync = "info" /\ wr' # wr
            /\ markets'[wr.addr] # NoRow ) =>
             markets'[wr.addr].phase = wr.got.phase]_vars

\* The import p is at the turn of its loop that upserts the address a.
UpsertsNow(p, a) ==
    /\ imp[p].pc = "upsert"
    /\ imp[p].i <= Len(imp[p].body)
    /\ imp'[p].i = imp[p].i + 1
    /\ imp[p].body[imp[p].i].hasId
    /\ imp[p].body[imp[p].i].marketAddress = a

\* The import p, sent with clearExisting, is at its deleteMany.
ClearsNow(p) == imp[p].pc = "clear" /\ imp[p].clear /\ imp'[p].pc = "upsert"

\* C27: a market row comes into being only in the upsert of an import that
\* carries its address, and goes away only in the deleteMany of an import
\* with clearExisting; no step of a cache update, a close-all, a list read
\* or a sweep creates, re-creates or deletes one.
C27_RowsCreatedAndDeletedByImportOnly ==
    [][\A a \in Addrs :
          /\ (markets[a] = NoRow /\ markets'[a] # NoRow) =>
                \E p \in ImpProcs : UpsertsNow(p, a)
          /\ (markets[a] # NoRow /\ markets'[a] = NoRow) =>
                \E p \in ImpProcs : ClearsNow(p)]_vars

\* POST /cache/update for m1 has run to its end (its ledger calls are all
\* answered here) and found no row to write, the import with clearExisting
\* having deleted m1 before the write: m1 is not stored.
C27_Witness ==
    /\ wr.pc = "done" /\ wr.op = "update"
    /\ wr.refreshed = {}
    /\ imp[1].clear /\ imp[1].pc = "upsert" /\ imp[1].i = 1
    /\ markets["m1"] = NoRow

-----------------------------------------------------------------------------
(* Properties of the user rows *)

\* C28: when syncUserInvestmentToCache has found the market contract and its
\* claim fetch has succeeded, its write leaves a row for (market, user) with
\* the fetched aClaims, bClaims and redeemed, whether a row existed or not;
\* the collection holds one row per (market, user) at most, being keyed by
\* the unique index on the pair.
C28_ClaimRefreshUpserts ==
    [][( /\ wr.pc = "syncWrite" /\ wr.sync = "claim" /\ wr' # wr ) =>
          LET row == investments'[<<wr.addr, wr.user>>] IN
          /\ row # NoRow
          /\ row.aClaims = wr.got.aClaims
          /\ row.bClaims = wr.got.bClaims
          /\ row.redeemed = wr.got.redeemed]_vars

\* POST /cache/update for (m1, u1) has refreshed the claim after a deposit:
\* the row carries the deposited claims.
C28_Witness ==
    /\ wr.pc = "done" /\ wr.op = "update"
    /\ <<"claim", "m1", "u1">> \in wr.refreshed
    /\ investments[<<"m1", "u1">>] # NoRow
    /\ investments[<<"m1", "u1">>].aClaims = 5

\* C29: with no stakeToken entry in the contract registry,
\* syncUserBalanceToCache returns at once: the handler goes on to its answer
\* without a ledger call having been made, and no balance row is created or
\* changed.
C29_NoTokenNoBalanceRefresh ==
    [][( /\ wr.pc = "syncRegistry" /\ ~stakeToken /\ wr' # wr ) =>
          /\ wr'.pc = "done"
          /\ wr'.resp.status = 200 /\ wr'.resp.success
          /\ <<"balance", "none", wr.user>> \notin wr'.refreshed
          /\ balances' = balances
          /\ chainBal' = chainBal]_vars

\* POST /cache/update for u1 has answered with no stakeToken registered and
\* u1 has no balance row.
C29_Witness ==
    /\ wr.pc = "done" /\ wr.op = "update" /\ wr.user = "u1"
    /\ ~wr.resp.skipped
    /\ ~stakeToken
    /\ balances["u1"] = NoRow

\* C30: a UserInvestment or UserBalance row that exists is never removed,
\* whatever the step: not by a refresh, a sweep, a read or a close-all, and
\* not by the deleteMany of an import with clearExisting.
C30_UserRowsNeverDeleted ==
    [][/\ \A k \in Addrs \X Users :
             investments[k] # NoRow => investments'[k] # NoRow
       /\ \A u \in Users :
             balances[u] # NoRow => balances'[u] # NoRow]_vars

\* The import with clearExisting has emptied the Market collection; the claim
\* row of (m1, u1) and the balance row of u1 are still stored.
C30_Witness ==
    /\ imp[1].clear /\ imp[1].pc = "upsert" /\ imp[1].i = 1
    /\ \A a \in Addrs : markets[a] = NoRow
    /\ investments[<<"m1", "u1">>] # NoRow
    /\ balances["u1"] # NoRow

-----------------------------------------------------------------------------
(* Properties of repeated refreshes and of failing reads *)

\* The row without its sync timestamp.
SansSyncedAt(row) == IF row = NoRow THEN NoRow ELSE [row EXCEPT !.lastSyncedAt = 0]

\* C31: applying one fetched snapshot a second time changes no stored field
\* but lastSyncedAt.  At every write of syncMarketToCache and of
\* syncUserInvestmentToCache, writing the same snapshot once more (in the same
\* build, a later time) gives the row just written, and a write onto a row
\* that already carries the snapshot leaves its other fields as they were.
C31_SameSnapshotTwice ==
    [][( /\ wr.pc = "syncWrite" /\ wr' # wr ) =>
          /\ wr.sync = "info" =>
                LET before == markets[wr.addr]
                    once == markets'[wr.addr]
                IN /\ \A strip \in BOOLEAN :
                         once = SyncMarketUpdate(before, wr.got, now, strip) =>
                            SansSyncedAt(SyncMarketUpdate(once, wr.got, now + 1, strip))
                                = SansSyncedAt(once)
                   /\ (before # NoRow /\ FullyReplaced(before, wr.got)) =>
                         SansSyncedAt(once) = SansSyncedAt(before)
          /\ wr.sync = "claim" =>
                LET before == investments[<<wr.addr, wr.user>>]
                    once == investments'[<<wr.addr, wr.user>>]
                IN /\ SansSyncedAt(SyncInvestmentUpdate(once, wr.got, now + 1))
                         = SansSyncedAt(once)
                   /\ ( /\ before # NoRow
                        /\ before.aClaims = wr.got.aClaims
                        /\ before.bClaims = wr.got.bClaims
                        /\ before.redeemed = wr.got.redeemed ) =>
                         SansSyncedAt(once) = SansSyncedAt(before)]_vars

\* A second POST /cache/update for m1 is about to write the snapshot that the
\* row, refreshed by the first one, already carries; the ledger has moved to
\* locked since the start.
C31_Witness ==
    /\ nwr = 2
    /\ wr.pc = "syncWrite" /\ wr.sync = "info" /\ wr.addr = "m1"
    /\ wr.got.phase = 1
    /\ markets["m1"].lastSyncedAt = now
    /\ FullyReplaced(markets["m1"], wr.got)

\* C32: when the key has no cached row and the handler's ledger fetch
\* throws, the read answers with an error (status 500) and no row is stored
\* for the key: the three collections are as they were.
C32_FailedFetchSurfaces ==
    [][( /\ rd.pc = "fetch" /\ rd'.pc = "done"
         /\ LookupRow(rd.kind, rd.addr, rd.user) = NoRow ) =>
          /\ resp'.status = 500
          /\ ~resp'.cached
          /\ markets' = markets
          /\ investments' = investments
          /\ balances' = balances]_vars

\* A read of a key that has no row has ended with its fetch thrown: the
\* answer is the 500 and the key still has no row.
C32_Witness ==
    /\ rd.pc = "done" /\ rd.tried /\ rd.fetched = NoVal
    /\ resp # NoResp /\ resp.status = 500
    /\ LookupRow(rd.kind, rd.addr, rd.user) = NoRow

\* C33: a market-info read that answered cached: false and whose refresh
\* wrote the row answered with the snapshot it stored: a cached: true read
\* coming next gets the same phase, pools, winner, lockTime and resolveTime.
C33_AnswerIsStoredSnapshot ==
    ( /\ rd.pc = "done" /\ rd.kind = "info"
      /\ ENABLE_CACHE
      /\ resp.status = 200 /\ ~resp.cached
      /\ refreshLog[rd.addr] # NoVal
      /\ refreshLog[rd.addr].by = rd.n ) =>
        CachedBody("info", markets[rd.addr]).phase = resp.phase

-----------------------------------------------------------------------------
(* Properties of POST /close-all *)

\* POST /close-all has answered with its summary.
CloseAnswered == wr.pc = "done" /\ wr.op = "closeAll" /\ wr.resp.status = 200

\* C34: the summary of close-all partitions the markets: closed + notReady +
\* alreadyClosed + errors is total, and closed is the number of markets on
\* which close() succeeded in this call.
C34_SummaryPartitions ==
    CloseAnswered =>
        LET m == wr.resp.summary IN
        /\ m.closed + m.notReady + m.alreadyClosed + m.errors = m.total
        /\ m.closed = Cardinality(wr.txs)

\* C35: close-all calls close() on a market only after the ledger reported
\* phase 0 for it and with the block time at or past its lockTime; a market
\* reported in another phase or before its lockTime is passed over, with the
\* ledger and the store as they were.
C35_ClosesOnlyTradingPastLock ==
    [][/\ (wr'.pc = "closeTx" /\ wr.pc # "closeTx") =>
             /\ wr.pc = "closeRead"
             /\ wr'.addr = wr.addr
             /\ chainMkt[wr.addr].phase = 0
             /\ wr.blockTime >= chainMkt[wr.addr].lockTime
       /\ ( /\ wr.pc = "closeRead" /\ wr' # wr
            /\ \/ chainMkt[wr.addr].phase # 0
               \/ wr.blockTime < chainMkt[wr.addr].lockTime ) =>
             /\ wr'.pc # "closeTx"
             /\ wr'.txs = wr.txs /\ wr'.closed = wr.closed
             /\ chainMkt' = chainMkt
             /\ markets' = markets
       /\ (wr.pc \notin {"idle", "done"} /\ wr'.txs # wr.txs) =>
             wr.pc = "closeTx" /\ wr'.txs = wr.txs \cup {wr.addr}]_vars

\* POST /close-all, sent before the lockTime of m1, has answered: m1 is
\* reported not ready, nothing was closed, and m1 is still trading on the
\* ledger and in the store.
C35_Witness ==
    /\ CloseAnswered
    /\ \E j \in DOMAIN wr.resp.results :
          /\ wr.resp.results[j].marketAddress = "m1"
          /\ wr.resp.results[j].status = "not-ready"
    /\ wr.txs = {}
    /\ chainMkt["m1"].phase = 0
    /\ markets["m1"].phase = 0

\* C36: an error on one market does not end the loop of close-all: when the
\* request has answered, the results list has one entry per market found, in
\* the order found, whatever happened to the markets before it.
C36_OneEntryPerMarket ==
    CloseAnswered =>
        LET found == FindAll(markets)
            results == wr.resp.results
        IN /\ Len(results) = Len(found)
           /\ wr.resp.summary.total = Len(found)
           /\ \A j \in DOMAIN results : results[j].marketAddress = found[j].addr

\* close-all over two markets has answered; the calls on the first one threw
\* and the second one has its entry all the same.
C36_Witness ==
    /\ CloseAnswered
    /\ Len(wr.resp.results) = 2
    /\ wr.resp.results[1].marketAddress = "m1"
    /\ wr.resp.results[1].phase = -1
    /\ wr.resp.results[2].marketAddress = "m2"

-----------------------------------------------------------------------------
\* Properties of the status column of the markets collection

StatusFollowsPhase(row) == row.status = phaseToStatus(row.phase)

\* C37: in every reachable state the status of each stored market is
\* phaseToStatus of its stored phase.
C37_StatusMatchesPhase ==
    \A a \in Addrs : markets[a] # NoRow => StatusFollowsPhase(markets[a])

-----------------------------------------------------------------------------
\* Properties of the handlers with caching disabled

\* The steps of a read that belong to the cache: the findOne of the handler
\* and the steps of the sync function it awaits.
CacheSteps == {"check", "syncCode", "syncRegistry", "syncRead", "syncWrite"}

\* A step of one of the three reads or of POST /cache/update.
ReadOrUpdateStep == rd' # rd \/ wr' # wr

\* C38: with caching disabled, the market-info, user-claim and user-balance
\* reads and POST /cache/update neither read nor write a cache row.  A read
\* never reaches its findOne or a sync function; what it answers is never
\* cached=true: a 200 answer carries the values its own ledger call returned,
\* and the other answers are the 500 of a ledger call that threw and the 404
\* of the balance read without a registered stake token.  POST /cache/update
\* answers at once that it skipped.  None of their steps changes the markets,
\* investments or balances collections.
C38_DisabledBypassesStore ==
    [][ IF ~ENABLE_CACHE /\ ReadOrUpdateStep
        THEN /\ UNCHANGED <<markets, investments, balances, stakeToken>>
             /\ rd'.pc \notin CacheSteps
             /\ rd'.tCheck = Undef
             /\ IF rd.pc = "fetch" /\ rd'.pc = "respond"
                THEN rd'.fetched = ChainRead(rd.kind, rd.addr, rd.user)
                ELSE TRUE
             /\ IF rd.pc # "done" /\ rd'.pc = "done"
                THEN /\ ~resp'.cached
                     /\ CASE resp'.status = 200 ->
                               /\ rd.tried
                               /\ resp' = FetchedBody(rd.kind, rd.fetched)
                          [] resp'.status = 500 -> rd.pc = "fetch"
                          [] resp'.status = 404 ->
                               rd.kind = "balance" /\ ~stakeToken
                          [] OTHER -> FALSE
                ELSE TRUE
             /\ IF wr' # wr
                THEN /\ wr'.pc = "done"
                     /\ wr'.resp = [status |-> 200, success |-> TRUE,
                                    skipped |-> TRUE]
                ELSE TRUE
        ELSE TRUE ]_vars

\* C38 witness: caching is disabled, m1 has a row synced less than 30 seconds
\* ago, and a market-info read has answered cached=false with the phase of
\* the ledger, which is not the stored one; POST /cache/update has answered
\* that it skipped, and the row is as it was.
C38_Witness ==
    /\ ~ENABLE_CACHE
    /\ rd.pc = "done" /\ rd.kind = "info" /\ rd.addr = "m1"
    /\ resp.status = 200 /\ ~resp.cached
    /\ markets["m1"] = SyncedRow0
    /\ now - markets["m1"].lastSyncedAt < CacheTTL
    /\ resp.phase = chainMkt["m1"].phase
    /\ resp.phase # markets["m1"].phase
    /\ wr.pc = "done" /\ wr.resp.skipped

-----------------------------------------------------------------------------
\* Properties of POST /regenerate-leaderboard

\* The step in which regenerate request p runs its insertMany and answers.
RegenInserts(p) ==
    /\ lbq[p].kind = "regenerate"
    /\ lbq[p].pc = "insert"
    /\ lbq'[p].pc = "done"

Names(rows) == { r.name : r \in rows }

\* The group at index next of date d in rows is a reshuffle of src: as many
\* rows, the same names, ranks 1..N each once, scores by the formula.
Reshuffled(rows, d, next, src) ==
    LET new == Group(rows, d, next)
        N == Cardinality(src)
    IN /\ Cardinality(new) = N
       /\ Names(new) = Names(src)
       /\ { r.rank : r \in new } = 1 .. N
       /\ \A r \in new : r.score = NewScore(r.rank)

\* C39: when a regenerate request has inserted, the group at index max+1 of
\* its date holds exactly the names and the number N of rows of the group at
\* index max, with ranks 1..N each used once and score 10000 - (rank-1)*250,
\* and the group at index max is as it was.
C39_NewGroupMirrorsSource ==
    [][ \A p \in LbProcs :
          IF RegenInserts(p)
          THEN LET d == lbq[p].date
                   next == lbq[p].nextIndex
                   src == Group(leaderboard, d, next - 1)
               IN /\ Reshuffled(leaderboard', d, next, src)
                  /\ Group(leaderboard', d, next - 1) = src
          ELSE TRUE ]_vars

\* The same for a request during which no other submission was stored, with
\* the not-found case: a regenerate request that finds no row for today ends
\* without a next index, and no step of a request writes before its
\* deleteMany.
RegenAloneMirrorsSource ==
    [][ \A p \in LbProcs :
          /\ IF RegenInserts(p) /\ Len(hist) = lbq[p].after
             THEN LET d == lbq[p].date
                      next == lbq[p].nextIndex
                      src == Group(leaderboard, d, next - 1)
                  IN /\ Reshuffled(leaderboard', d, next, src)
                     /\ Group(leaderboard', d, next - 1) = src
                     /\ next = MaxIndexDoc(leaderboard, d) + 1
             ELSE TRUE
          /\ IF lbq[p].kind = "regenerate" /\ lbq[p].pc = "max" /\ lbq'[p] # lbq[p]
             THEN /\ leaderboard' = leaderboard
                  /\ (MaxIndexDoc(leaderboard, lbq[p].date) = Undef)
                        <=> (lbq'[p].pc = "done" /\ lbq'[p].nextIndex = Undef)
             ELSE TRUE ]_vars


=============================================================================
